---- MODULE Spec2Model ----
(***************************************************************************)
(* A model of the DBC binder of parser_tatsu.py: DbcFactory.create_dbc      *)
(* runs eleven passes over a parse tree (ast) and fills a DbcFile.          *)
(*                                                                          *)
(* Representation.                                                          *)
(*  - A Python str whose characters the code inspects (quoted strings,      *)
(*    numbers) is a sequence of one-character strings; a str the code only  *)
(*    compares or uses as a key (identifiers, keywords) is a TLA+ string.   *)
(*  - A Python list is a sequence; source index i is At(seq, i).            *)
(*  - A Python dict is the sequence of its [k, v] items in insertion order. *)
(*  - None is <<>> and a present optional value x is <<x>>.                 *)
(*  - A reference to an object held in an index of the DbcFile is the key   *)
(*    of that object: the _add_* methods never rebind a key, so equal keys  *)
(*    are the same object.                                                  *)
(*  - A call that may raise yields [ok, v, err]: ok = FALSE carries the     *)
(*    exception class in err.                                               *)
(***************************************************************************)
EXTENDS Integers, Sequences, FiniteSets, TLC

VARIABLES ast, pc, dbc, err, ret

vars == <<ast, pc, dbc, err, ret>>

-----------------------------------------------------------------------------
(* Python values *)

None == <<>>
Some(x) == <<x>>

At(seq, i) == seq[i + 1]

Ok(v) == [ok |-> TRUE, v |-> v, err |-> "none"]
Raise(e) == [ok |-> FALSE, v |-> None, err |-> e]

QUOTE == "\""
NA == <<"N", "/", "A">>

DigitChars == <<"0", "1", "2", "3", "4", "5", "6", "7", "8", "9">>
IsDigit(c) == \E i \in 1..10 : DigitChars[i] = c
DigitVal(c) == (CHOOSE i \in 1..10 : DigitChars[i] = c) - 1

(* dict *)
DictHas(d, k) == \E i \in 1..Len(d) : d[i].k = k
DictGet(d, k) == d[CHOOSE i \in 1..Len(d) : d[i].k = k].v
DictPut(d, k, v) ==
    IF DictHas(d, k)
    THEN [i \in 1..Len(d) |-> IF d[i].k = k THEN [k |-> k, v |-> v] ELSE d[i]]
    ELSE Append(d, [k |-> k, v |-> v])
DictKeys(d) == [i \in 1..Len(d) |-> d[i].k]

(* d[k] of the source: KeyError when k is absent *)
DictLookup(d, k) == IF DictHas(d, k) THEN Ok(DictGet(d, k)) ELSE Raise("KeyError")

-----------------------------------------------------------------------------
(* Lexical primitives *)

(* value[1:-1] *)
Slice1m1(value) == IF Len(value) < 2 THEN <<>> ELSE SubSeq(value, 2, Len(value) - 1)

read_char_string_keep(value) ==
    IF Len(value) = 0 THEN Raise("IndexError") ELSE Ok(value)

read_char_string(value) ==
    IF Len(value) = 0 THEN Raise("IndexError")
    ELSE IF value[1] = QUOTE /\ value[Len(value)] = QUOTE
         THEN Ok(Slice1m1(value))
         ELSE Ok(value)

(* A numeric parse node: a str leaf or a list of nodes. *)
Leaf(s) == [leaf |-> TRUE, s |-> s, kids |-> <<>>]
Branch(kids) == [leaf |-> FALSE, s |-> <<>>, kids |-> kids]

RECURSIVE join_parsed_number(_)
join_parsed_number(node) ==
    IF node.leaf THEN node.s
    ELSE IF node.kids = <<>> THEN <<>>
    ELSE join_parsed_number(Head(node.kids))
           \o join_parsed_number(Branch(Tail(node.kids)))

RECURSIVE DigitsValue(_)
DigitsValue(cs) ==
    IF cs = <<>> THEN 0
    ELSE 10 * DigitsValue(SubSeq(cs, 1, Len(cs) - 1)) + DigitVal(cs[Len(cs)])

AllDigits(cs) == cs # <<>> /\ \A i \in 1..Len(cs) : IsDigit(cs[i])

HasSign(cs) == cs # <<>> /\ cs[1] \in {"-", "+"}
Unsigned(cs) == IF HasSign(cs) THEN Tail(cs) ELSE cs
SignOf(cs) == IF cs # <<>> /\ cs[1] = "-" THEN -1 ELSE 1

(* int(str): an optional sign and decimal digits, ValueError otherwise *)
py_int(cs) ==
    IF AllDigits(Unsigned(cs))
    THEN Ok(SignOf(cs) * DigitsValue(Unsigned(cs)))
    ELSE Raise("ValueError")

(* A float is m / 10^e with e least: the decimal literals compare as the   *)
(* doubles they denote do.                                                  *)
RECURSIVE Normal(_, _)
Normal(m, e) ==
    IF e > 0 /\ m % 10 = 0 THEN Normal(m \div 10, e - 1) ELSE [m |-> m, e |-> e]

Float(n) == [m |-> n, e |-> 0]

DotAt(cs) == {i \in 1..Len(cs) : cs[i] = "."}

(* float(str): an optional sign, digits, an optional fraction *)
py_float(cs) ==
    LET u == Unsigned(cs)
        dots == DotAt(u)
    IN  IF dots = {}
        THEN IF AllDigits(u) THEN Ok(Normal(SignOf(cs) * DigitsValue(u), 0))
             ELSE Raise("ValueError")
        ELSE LET d == CHOOSE i \in dots : TRUE
                 ip == SubSeq(u, 1, d - 1)
                 fp == SubSeq(u, d + 1, Len(u))
             IN  IF Cardinality(dots) = 1 /\ AllDigits(ip \o fp)
                 THEN Ok(Normal(SignOf(cs) * DigitsValue(ip \o fp), Len(fp)))
                 ELSE Raise("ValueError")

read_float(value) == py_float(join_parsed_number(value))

read_int(value) == py_int(join_parsed_number(value))

(* `not value`: an absent optional field of the parse tree. The result   *)
(* may be None, so it is an optional value: default is None or Some(x).  *)
read_float_with_default(value, default) ==
    IF value = None THEN Ok(default)
    ELSE LET r == read_float(value[1]) IN IF r.ok THEN Ok(Some(r.v)) ELSE r

(* The exception of the first call, in evaluation order, that raised *)
FirstErr(rs) ==
    rs[CHOOSE i \in 1..Len(rs) : ~rs[i].ok /\ \A j \in 1..(i - 1) : rs[j].ok].err
AllOk(rs) == \A i \in 1..Len(rs) : rs[i].ok

(* Token-enum decoders *)

read_env_var_type(value) ==
    IF value = "0" THEN Ok("INTEGER")
    ELSE IF value = "1" THEN Ok("FLOAT")
    ELSE IF value = "2" THEN Ok("STRING")
    ELSE Raise("RuntimeError")

read_env_var_access_type_lenient(value) ==
    IF value = "DUMMY_NODE_VECTOR1" THEN Ok("READ")
    ELSE IF value = "DUMMY_NODE_VECTOR2" THEN Ok("WRITE")
    ELSE IF value = "DUMMY_NODE_VECTOR3" THEN Ok("READ_WRITE")
    ELSE Ok("UNRESTRICTED")

read_env_var_access_type(value) ==
    IF value = "DUMMY_NODE_VECTOR0" THEN Ok("UNRESTRICTED")
    ELSE IF value = "DUMMY_NODE_VECTOR1" THEN Ok("READ")
    ELSE IF value = "DUMMY_NODE_VECTOR2" THEN Ok("WRITE")
    ELSE IF value = "DUMMY_NODE_VECTOR3" THEN Ok("READ_WRITE")
    ELSE IF value = "DUMMY_NODE_VECTOR8000" THEN Ok("UNRESTRICTED")
    ELSE Raise("RuntimeError")

read_signal_value_type_swapped(ast_) ==
    IF ast_ = "+" THEN Ok("SIGNED")
    ELSE IF ast_ = "-" THEN Ok("UNSIGNED")
    ELSE Raise("RuntimeError")

read_signal_value_type(ast_) ==
    IF ast_ = "+" THEN Ok("UNSIGNED")
    ELSE IF ast_ = "-" THEN Ok("SIGNED")
    ELSE Raise("RuntimeError")

read_byte_order_swapped(ast_) ==
    IF ast_ = "0" THEN Ok("BIG_ENDIAN")
    ELSE IF ast_ = "1" THEN Ok("LITTLE_ENDIAN")
    ELSE Raise("RuntimeError")

read_byte_order(ast_) ==
    IF ast_ = "0" THEN Ok("LITTLE_ENDIAN")
    ELSE IF ast_ = "1" THEN Ok("BIG_ENDIAN")
    ELSE Raise("RuntimeError")

read_extended_value_type_reset(ast_, sig) ==
    IF ast_ = "0" THEN Ok("UNSIGNED")
    ELSE IF ast_ = "1" THEN Ok("FLOAT32")
    ELSE IF ast_ = "2" THEN Ok("FLOAT64")
    ELSE Raise("RuntimeError")

read_extended_value_type(ast_, sig) ==
    IF ast_ = "0" THEN Ok(sig.value_type)
    ELSE IF ast_ = "1" THEN Ok("FLOAT32")
    ELSE IF ast_ = "2" THEN Ok("FLOAT64")
    ELSE Raise("RuntimeError")

-----------------------------------------------------------------------------
(* Object model *)

(* A slot whose Python type a caller may observe holds [ty, v]: a str, or *)
(* a reference to the DbcNode / DbcSignal under key v.                    *)
PyStr(s) == [ty |-> "str", v |-> s]
NodeRef(name) == [ty |-> "DbcNode", v |-> name]
SignalRef(message_id, name) == [ty |-> "DbcSignal", v |-> name, of |-> message_id]

(* x.name: a str has no attribute name *)
attr_name(x) == IF x.ty = "str" THEN Raise("AttributeError") ELSE Ok(x.v)

DbcNode(name) == [name |-> name, description |-> NA, attributes |-> <<>>]

DbcSignal(signal_name, start_bit, signal_size, byte_order, value_type, factor, offset, minimum, maximum, unit) ==
    [name |-> signal_name, start_bit |-> start_bit, size |-> signal_size,
     byte_order |-> byte_order, value_type |-> value_type,
     factor |-> factor, offset |-> offset,
     minimum |-> minimum, maximum |-> maximum, unit |-> unit,
     attributes |-> <<>>, description |-> NA, value_descriptions |-> <<>>]

DbcSignalGroup(name, repetitions) ==
    [name |-> name, repetitions |-> repetitions, signals |-> <<>>]

DbcMessage(message_id, message_name, message_size, transmitter) ==
    [id |-> message_id, name |-> message_name, size |-> message_size,
     description |-> NA, transmitter |-> PyStr(transmitter),
     signals_by_name |-> <<>>, attributes |-> <<>>, signal_groups |-> <<>>]

(* The data_size parameter is not stored: data_size starts at 0. *)
DbcEnvironmentVariable(name, type, data_size, min, max, unit, init_value, id, access_type) ==
    [name |-> name, type |-> type, minimum |-> min, maximum |-> max,
     unit |-> unit, init_value |-> init_value, id |-> id,
     access_type |-> access_type, access_nodes |-> <<>>, description |-> NA,
     attributes |-> <<>>, value_descriptions |-> <<>>, data_size |-> 0]

DbcValueTable(name) == [name |-> name, values |-> <<>>]

DbcAttribute(name, value_type, object_type) ==
    [name |-> name, value_type |-> value_type, object_type |-> object_type,
     default |-> None]

(* attribute is the schema's key in DbcFile.attribute_definitions; value *)
(* is [ty, v] with ty the Python type of v.                              *)
DbcAttributeValue(attribute, value) ==
    [name |-> attribute.name, attribute |-> attribute.name, value |-> value]

DbcFile_blank ==
    [version |-> <<>>, nodes_by_name |-> <<>>, messages_by_id |-> <<>>,
     environment_variables_by_name |-> <<>>, attribute_definitions |-> <<>>,
     attribute_values |-> <<>>, value_tables_by_name |-> <<>>]

DbcFile ==
    [version |-> NA, nodes_by_name |-> <<>>, messages_by_id |-> <<>>,
     environment_variables_by_name |-> <<>>, attribute_definitions |-> <<>>,
     attribute_values |-> <<>>, value_tables_by_name |-> <<>>]

(* The result of a method or pass that mutates the DbcFile: on a raise,  *)
(* dbc holds what had been mutated before it.                            *)
Done(d) == [ok |-> TRUE, dbc |-> d, err |-> "none"]
Fail(d, e) == [ok |-> FALSE, dbc |-> d, err |-> e]

(* add_attribute of DbcNode, DbcSignal, DbcMessage, DbcEnvironmentVariable *)
add_attribute(obj, attr) ==
    IF DictHas(obj.attributes, attr.name) THEN Raise("RuntimeError")
    ELSE Ok([obj EXCEPT !.attributes = DictPut(@, attr.name, attr)])

has_attribute(obj, name) == DictHas(obj.attributes, name)
get_attribute(obj, name) == DictLookup(obj.attributes, name)

add_value_description_once(obj, val, label) ==
    IF \E i \in 1..Len(obj.value_descriptions) :
           obj.value_descriptions[i] = <<val, label>>
    THEN obj
    ELSE [obj EXCEPT !.value_descriptions = Append(@, <<val, label>>)]

add_value_description(obj, val, label) ==
    [obj EXCEPT !.value_descriptions = Append(@, <<val, label>>)]

_add_signal_overwrite(message, signal) ==
    Ok([message EXCEPT !.signals_by_name = DictPut(@, signal.name, signal)])

_add_signal(message, signal) ==
    IF DictHas(message.signals_by_name, signal.name) THEN Raise("RuntimeError")
    ELSE Ok([message EXCEPT !.signals_by_name = DictPut(@, signal.name, signal)])

get_signal(message, name) == DictLookup(message.signals_by_name, name)

_add_value(vt, value, label) ==
    IF DictHas(vt.values, label) THEN Raise("RuntimeError")
    ELSE Ok([vt EXCEPT !.values = DictPut(@, label, value)])

_add_message_overwrite(d, message) ==
    Done([d EXCEPT !.messages_by_id = DictPut(@, message.id, message)])

_add_message(d, message) ==
    IF DictHas(d.messages_by_id, message.id) THEN Fail(d, "RuntimeError")
    ELSE Done([d EXCEPT !.messages_by_id = DictPut(@, message.id, message)])

_add_value_table(d, vtable) ==
    IF DictHas(d.value_tables_by_name, vtable.name) THEN Fail(d, "RuntimeError")
    ELSE Done([d EXCEPT !.value_tables_by_name = DictPut(@, vtable.name, vtable)])

_add_environment_variable(d, ev) ==
    IF DictHas(d.environment_variables_by_name, ev.name) THEN Fail(d, "RuntimeError")
    ELSE Done([d EXCEPT
               !.environment_variables_by_name = DictPut(@, ev.name, ev)])

_add_node(d, node) ==
    IF DictHas(d.nodes_by_name, node.name) THEN Fail(d, "RuntimeError")
    ELSE Done([d EXCEPT !.nodes_by_name = DictPut(@, node.name, node)])

_add_attribute_definition(d, attr) ==
    IF DictHas(d.attribute_definitions, attr.name) THEN Fail(d, "RuntimeError")
    ELSE Done([d EXCEPT !.attribute_definitions = DictPut(@, attr.name, attr)])

has_attribute_definition(d, name) == DictHas(d.attribute_definitions, name)
get_attribute_definition(d, name) == DictLookup(d.attribute_definitions, name)

add_attribute_value(d, attr) ==
    IF DictHas(d.attribute_values, attr.name) THEN Fail(d, "RuntimeError")
    ELSE Done([d EXCEPT !.attribute_values = DictPut(@, attr.name, attr)])

has_node(d, name) == DictHas(d.nodes_by_name, name)
get_node(d, name) == DictLookup(d.nodes_by_name, name)
has_message(d, id) == DictHas(d.messages_by_id, id)
get_message(d, id) == DictLookup(d.messages_by_id, id)
has_value_table(d, name) == DictHas(d.value_tables_by_name, name)
get_value_table(d, name) == DictLookup(d.value_tables_by_name, name)
get_environment_variable(d, name) ==
    DictLookup(d.environment_variables_by_name, name)

-----------------------------------------------------------------------------
(* DbcFactory *)

create_node(parsed_node) == DbcNode(parsed_node)

create_signal_size_first(parsed_signal) ==
    LET start_bit == read_int(parsed_signal.start_bit)
        signal_size == read_int(parsed_signal.signal_size)
        byte_order == read_byte_order(parsed_signal.byte_order)
        value_type == read_signal_value_type(parsed_signal.value_type)
        factor == read_float_with_default(parsed_signal.factor, Some(Float(1)))
        offset == read_float_with_default(parsed_signal.offset, Some(Float(0)))
        minimum == read_float_with_default(parsed_signal.minimum, None)
        maximum == read_float_with_default(parsed_signal.maximum, None)
        unit == read_char_string(parsed_signal.unit)
        rs == <<start_bit, signal_size, byte_order, value_type, factor, offset,
                minimum, maximum, unit>>
    IN  IF AllOk(rs)
        THEN Ok(DbcSignal(parsed_signal.signal_name, signal_size.v, start_bit.v,
                          byte_order.v, value_type.v, factor.v, offset.v,
                          minimum.v, maximum.v, unit.v))
        ELSE Raise(FirstErr(rs))

create_signal(parsed_signal) ==
    LET start_bit == read_int(parsed_signal.start_bit)
        signal_size == read_int(parsed_signal.signal_size)
        byte_order == read_byte_order(parsed_signal.byte_order)
        value_type == read_signal_value_type(parsed_signal.value_type)
        factor == read_float_with_default(parsed_signal.factor, Some(Float(1)))
        offset == read_float_with_default(parsed_signal.offset, Some(Float(0)))
        minimum == read_float_with_default(parsed_signal.minimum, None)
        maximum == read_float_with_default(parsed_signal.maximum, None)
        unit == read_char_string(parsed_signal.unit)
        rs == <<start_bit, signal_size, byte_order, value_type, factor, offset,
                minimum, maximum, unit>>
    IN  IF AllOk(rs)
        THEN Ok(DbcSignal(parsed_signal.signal_name, start_bit.v, signal_size.v,
                          byte_order.v, value_type.v, factor.v, offset.v,
                          minimum.v, maximum.v, unit.v))
        ELSE Raise(FirstErr(rs))

(* for parsed_signal in parsed_signals: r is the message so far *)
RECURSIVE create_message_signals(_, _)
create_message_signals(parsed_signals, r) ==
    IF parsed_signals = <<>> \/ ~r.ok THEN r
    ELSE LET signal == create_signal(Head(parsed_signals))
         IN  create_message_signals(Tail(parsed_signals),
                 IF signal.ok THEN _add_signal(r.v, signal.v) ELSE signal)

create_message(parsed_message) ==
    LET message_id == read_int(parsed_message.message_id)
        message_size == read_int(parsed_message.message_size)
        rs == <<message_id, message_size>>
    IN  IF AllOk(rs)
        THEN create_message_signals(parsed_message.signals,
                 Ok(DbcMessage(message_id.v, parsed_message.message_name,
                               message_size.v, parsed_message.transmitter)))
        ELSE Raise(FirstErr(rs))

add_access_node_front(r, ev_anode, nodes_by_name) ==
    IF ~r.ok \/ ev_anode = "Vector__XXX" THEN r
    ELSE IF DictHas(nodes_by_name, ev_anode)
         THEN Ok([r.v EXCEPT !.access_nodes = <<NodeRef(ev_anode)>> \o @])
         ELSE Raise("KeyError")

(* ev._add_access_node(nodes_by_name[ev_anode]) unless Vector__XXX *)
add_access_node(r, ev_anode, nodes_by_name) ==
    IF ~r.ok \/ ev_anode = "Vector__XXX" THEN r
    ELSE IF DictHas(nodes_by_name, ev_anode)
         THEN Ok([r.v EXCEPT !.access_nodes = Append(@, NodeRef(ev_anode))])
         ELSE Raise("KeyError")

RECURSIVE add_access_nodes(_, _, _)
add_access_nodes(r, ev_anodes, nodes_by_name) ==
    IF ev_anodes = <<>> \/ ~r.ok THEN r
    ELSE add_access_nodes(add_access_node(r, Head(ev_anodes), nodes_by_name),
                          Tail(ev_anodes), nodes_by_name)

create_environment_variable(parsed_ev, nodes_by_name) ==
    LET ev_type == read_env_var_type(At(parsed_ev, 3))
        ev_min == read_float_with_default(At(parsed_ev, 5), None)
        ev_max == read_float_with_default(At(parsed_ev, 7), None)
        ev_unit == read_char_string(At(parsed_ev, 9))
        ev_ival == read_float_with_default(At(parsed_ev, 10), None)
        ev_id == read_int(At(parsed_ev, 11))
        ev_atype == read_env_var_access_type(At(parsed_ev, 12))
        rs == <<ev_type, ev_min, ev_max, ev_unit, ev_ival, ev_id, ev_atype>>
    IN  IF AllOk(rs)
        THEN LET ev == DbcEnvironmentVariable(At(parsed_ev, 1), ev_type.v, 0,
                           ev_min.v, ev_max.v, ev_unit.v, ev_ival.v, ev_id.v,
                           ev_atype.v)
             IN  add_access_nodes(
                     add_access_node(Ok(ev), At(parsed_ev, 13), nodes_by_name),
                     At(parsed_ev, 14), nodes_by_name)
        ELSE Raise(FirstErr(rs))

-----------------------------------------------------------------------------
(* The passes. Each loop takes the statements left and the DbcFile result *)
(* so far, and stops at the first statement that raises.                  *)

_process_version_quoted(ast_, d) ==
    IF ast_.version # None
    THEN LET parsed_version == ast_.version[1]
             version == read_char_string_keep(At(parsed_version, 1))
         IN  IF version.ok THEN Done([d EXCEPT !.version = version.v])
             ELSE Fail(d, version.err)
    ELSE Done(d)

_process_version(ast_, d) ==
    IF ast_.version # None
    THEN LET parsed_version == ast_.version[1]
             version == read_char_string(At(parsed_version, 1))
         IN  IF version.ok THEN Done([d EXCEPT !.version = version.v])
             ELSE Fail(d, version.err)
    ELSE Done(d)

RECURSIVE nodes_loop(_, _)
nodes_loop(node_names, r) ==
    IF node_names = <<>> \/ ~r.ok THEN r
    ELSE nodes_loop(Tail(node_names),
                    _add_node(r.dbc, create_node(Head(node_names))))

_process_nodes(ast_, d) == nodes_loop(ast_.nodes.node_names, Done(d))

(* for value in values: r is the value table so far *)
RECURSIVE value_table_values(_, _)
value_table_values(values, r) ==
    IF values = <<>> \/ ~r.ok THEN r
    ELSE LET value == Head(values)
             val == read_float(At(value, 0))
             label == read_char_string(At(value, 1))
         IN  value_table_values(Tail(values),
                 IF ~val.ok THEN val
                 ELSE IF ~label.ok THEN label
                 ELSE _add_value(r.v, val.v, label.v))

RECURSIVE value_tables_loop(_, _)
value_tables_loop(vtables, r) ==
    IF vtables = <<>> \/ ~r.ok THEN r
    ELSE LET vtable == Head(vtables)
             vt == value_table_values(At(vtable, 2), Ok(DbcValueTable(At(vtable, 1))))
         IN  value_tables_loop(Tail(vtables),
                 IF vt.ok THEN _add_value_table(r.dbc, vt.v)
                 ELSE Fail(r.dbc, vt.err))

_process_value_tables(ast_, d) == value_tables_loop(ast_.value_tables, Done(d))

RECURSIVE messages_loop(_, _)
messages_loop(messages, r) ==
    IF messages = <<>> \/ ~r.ok THEN r
    ELSE LET frame == create_message(Head(messages))
         IN  messages_loop(Tail(messages),
                 IF frame.ok THEN _add_message(r.dbc, frame.v)
                 ELSE Fail(r.dbc, frame.err))

_process_messages(ast_, d) == messages_loop(ast_.messages, Done(d))

RECURSIVE environment_variables_loop(_, _)
environment_variables_loop(evs, r) ==
    IF evs = <<>> \/ ~r.ok THEN r
    ELSE LET evar == create_environment_variable(Head(evs), r.dbc.nodes_by_name)
         IN  environment_variables_loop(Tail(evs),
                 IF evar.ok THEN _add_environment_variable(r.dbc, evar.v)
                 ELSE Fail(r.dbc, evar.err))

_process_environment_variables(ast_, d) ==
    environment_variables_loop(ast_.environment_variables, Done(d))

(* Mutators of an object held in an index: the object itself changes, so *)
(* every reference to it sees the change.                                *)
SetNode(d, name, node) == [d EXCEPT !.nodes_by_name = DictPut(@, name, node)]
SetMessage(d, id, msg) == [d EXCEPT !.messages_by_id = DictPut(@, id, msg)]
SetEnvVar(d, name, ev) ==
    [d EXCEPT !.environment_variables_by_name = DictPut(@, name, ev)]
SetSignal(d, id, name, sig) ==
    LET msg == DictGet(d.messages_by_id, id)
    IN  SetMessage(d, id, [msg EXCEPT !.signals_by_name = DictPut(@, name, sig)])
SetAttributeDefinition(d, name, attr) ==
    [d EXCEPT !.attribute_definitions = DictPut(@, name, attr)]

(* ev.type = DATA; ev.data_size = data_size *)
promote_to_data_size_only(ev, data_size) == [ev EXCEPT !.data_size = data_size]

promote_to_data(ev, data_size) ==
    [ev EXCEPT !.type = "DATA", !.data_size = data_size]

RECURSIVE environment_variables_data_loop(_, _)
environment_variables_data_loop(ev_data, r) ==
    IF ev_data = <<>> \/ ~r.ok THEN r
    ELSE LET evd == Head(ev_data)
             ev_name == At(evd, 1)
             ev == get_environment_variable(r.dbc, ev_name)
             data_size == read_int(At(evd, 3))
         IN  environment_variables_data_loop(Tail(ev_data),
                 IF ~ev.ok THEN Fail(r.dbc, ev.err)
                 ELSE IF ~data_size.ok THEN Fail(r.dbc, data_size.err)
                 ELSE Done(SetEnvVar(r.dbc, ev_name,
                                     promote_to_data(ev.v, data_size.v))))

_process_environment_variables_data(ast_, d) ==
    environment_variables_data_loop(ast_.environment_variables_data, Done(d))

(* One comment statement of _process_comments *)
process_comment_any_sets_version(comment, d) ==
    LET text == read_char_string(At(comment, Len(comment) - 2))
    IN  IF text.ok THEN Done([d EXCEPT !.version = text.v]) ELSE Fail(d, text.err)

process_comment(comment, d) ==
    IF Len(comment) = 3
    THEN LET version == read_char_string(At(comment, 1))
         IN  IF version.ok THEN Done([d EXCEPT !.version = version.v])
             ELSE Fail(d, version.err)
    ELSE IF Len(comment) = 5
    THEN LET object_type == At(comment, 1)
             text == read_char_string(At(comment, 3))
         IN  IF object_type = "BU_"
             THEN LET node == get_node(d, At(comment, 2))
                  IN  IF ~node.ok THEN Fail(d, node.err)
                      ELSE IF ~text.ok THEN Fail(d, text.err)
                      ELSE Done(SetNode(d, At(comment, 2),
                                        [node.v EXCEPT !.description = text.v]))
             ELSE IF object_type = "BO_"
             THEN LET msg_id == read_int(At(comment, 2))
                      msg == IF msg_id.ok THEN get_message(d, msg_id.v) ELSE msg_id
                  IN  IF ~msg.ok THEN Fail(d, msg.err)
                      ELSE IF ~text.ok THEN Fail(d, text.err)
                      ELSE Done(SetMessage(d, msg_id.v,
                                           [msg.v EXCEPT !.description = text.v]))
             ELSE IF object_type = "EV_"
             THEN LET ev == get_environment_variable(d, At(comment, 2))
                  IN  IF ~ev.ok THEN Fail(d, ev.err)
                      ELSE IF ~text.ok THEN Fail(d, text.err)
                      ELSE Done(SetEnvVar(d, At(comment, 2),
                                          [ev.v EXCEPT !.description = text.v]))
             ELSE Fail(d, "RuntimeError")
    ELSE IF Len(comment) = 6
    THEN LET msg_id == read_int(At(comment, 2))
             msg == IF msg_id.ok THEN get_message(d, msg_id.v) ELSE msg_id
             signal == IF msg.ok THEN get_signal(msg.v, At(comment, 3)) ELSE msg
             text == read_char_string(At(comment, 4))
         IN  IF ~signal.ok THEN Fail(d, signal.err)
             ELSE IF ~text.ok THEN Fail(d, text.err)
             ELSE Done(SetSignal(d, msg_id.v, At(comment, 3),
                                 [signal.v EXCEPT !.description = text.v]))
    ELSE Fail(d, "RuntimeError")

RECURSIVE comments_loop(_, _)
comments_loop(comments, r) ==
    IF comments = <<>> \/ ~r.ok THEN r
    ELSE comments_loop(Tail(comments), process_comment(Head(comments), r.dbc))

_process_comments(ast_, d) == comments_loop(ast_.comments, Done(d))

(* One SIG_VALTYPE_ statement of _process_signal_type_refs *)
process_signal_type_ref(st, d) ==
    IF At(st, 0) = "SIG_VALTYPE_"
    THEN LET msg_id == read_int(At(st, 1))
             msg == IF msg_id.ok THEN get_message(d, msg_id.v) ELSE msg_id
             sig == IF msg.ok THEN get_signal(msg.v, At(st, 2)) ELSE msg
             stype == IF sig.ok THEN read_extended_value_type(At(st, 4), sig.v)
                      ELSE sig
         IN  IF ~stype.ok THEN Fail(d, stype.err)
             ELSE Done(SetSignal(d, msg_id.v, At(st, 2),
                                 [sig.v EXCEPT !.value_type = stype.v]))
    ELSE Done(d)

RECURSIVE signal_type_refs_loop(_, _)
signal_type_refs_loop(sts, r) ==
    IF sts = <<>> \/ ~r.ok THEN r
    ELSE signal_type_refs_loop(Tail(sts), process_signal_type_ref(Head(sts), r.dbc))

_process_signal_type_refs(ast_, d) ==
    signal_type_refs_loop(ast_.signal_type_refs, Done(d))

(* for value in values of a VAL_ statement: the signal or the environment *)
(* variable gets each pair as soon as it is decoded                       *)
RECURSIVE signal_value_descriptions(_, _, _, _)
signal_value_descriptions(values, msg_id, sig_name, r) ==
    IF values = <<>> \/ ~r.ok THEN r
    ELSE LET value == Head(values)
             val == py_float(At(value, 0))
             label == read_char_string(At(value, 1))
             sig == DictGet(DictGet(r.dbc.messages_by_id, msg_id).signals_by_name,
                            sig_name)
         IN  signal_value_descriptions(Tail(values), msg_id, sig_name,
                 IF ~val.ok THEN Fail(r.dbc, val.err)
                 ELSE IF ~label.ok THEN Fail(r.dbc, label.err)
                 ELSE Done(SetSignal(r.dbc, msg_id, sig_name,
                               add_value_description(sig, val.v, label.v))))

RECURSIVE ev_value_descriptions(_, _, _)
ev_value_descriptions(values, ev_name, r) ==
    IF values = <<>> \/ ~r.ok THEN r
    ELSE LET value == Head(values)
             val == py_float(At(value, 0))
             label == read_char_string(At(value, 1))
             ev == DictGet(r.dbc.environment_variables_by_name, ev_name)
         IN  ev_value_descriptions(Tail(values), ev_name,
                 IF ~val.ok THEN Fail(r.dbc, val.err)
                 ELSE IF ~label.ok THEN Fail(r.dbc, label.err)
                 ELSE Done(SetEnvVar(r.dbc, ev_name,
                               add_value_description(ev, val.v, label.v))))

process_value_description(value_description, d) ==
    IF Len(value_description) = 5
    THEN LET msg_id == read_int(At(value_description, 1))
             msg == IF msg_id.ok THEN get_message(d, msg_id.v) ELSE msg_id
             sig == IF msg.ok THEN get_signal(msg.v, At(value_description, 2)) ELSE msg
         IN  IF ~sig.ok THEN Fail(d, sig.err)
             ELSE signal_value_descriptions(At(value_description, 3), msg_id.v,
                      At(value_description, 2), Done(d))
    ELSE IF Len(value_description) = 4
    THEN LET ev == get_environment_variable(d, At(value_description, 1))
         IN  IF ~ev.ok THEN Fail(d, ev.err)
             ELSE ev_value_descriptions(At(value_description, 2),
                      At(value_description, 1), Done(d))
    ELSE Fail(d, "RuntimeError")

RECURSIVE value_descriptions_loop(_, _)
value_descriptions_loop(value_descriptions, r) ==
    IF value_descriptions = <<>> \/ ~r.ok THEN r
    ELSE value_descriptions_loop(Tail(value_descriptions),
             process_value_description(Head(value_descriptions), r.dbc))

_process_value_descriptions(ast_, d) ==
    value_descriptions_loop(ast_.value_descriptions, Done(d))

(* A signal group that keeps the names without looking the signals up *)
unchecked_signal_group(signal_group, d) ==
    LET msg_id == read_int(At(signal_group, 1))
        msg == IF msg_id.ok THEN get_message(d, msg_id.v) ELSE msg_id
        repetitions == IF msg.ok THEN read_int(At(signal_group, 3)) ELSE msg
        names == At(signal_group, 5)
    IN  IF ~repetitions.ok THEN Fail(d, repetitions.err)
        ELSE Done([d EXCEPT !.messages_by_id = DictPut(@, msg_id.v,
                 [msg.v EXCEPT !.signal_groups = Append(@,
                     [name |-> At(signal_group, 2), repetitions |-> repetitions.v,
                      signals |-> [k \in 1..Len(names) |->
                                      SignalRef(msg_id.v, names[k])]])])])

(* for signal_name in signal_names: r is the group so far *)
RECURSIVE signal_group_signals(_, _, _)
signal_group_signals(signal_names, msg, r) ==
    IF signal_names = <<>> \/ ~r.ok THEN r
    ELSE LET sig == get_signal(msg, Head(signal_names))
         IN  signal_group_signals(Tail(signal_names), msg,
                 IF sig.ok
                 THEN Ok([r.v EXCEPT !.signals = Append(@, SignalRef(msg.id, sig.v.name))])
                 ELSE sig)

process_signal_group(signal_group, d) ==
    LET msg_id == read_int(At(signal_group, 1))
        msg == IF msg_id.ok THEN get_message(d, msg_id.v) ELSE msg_id
        repetitions == IF msg.ok THEN read_int(At(signal_group, 3)) ELSE msg
        sig_gp == IF repetitions.ok
                  THEN signal_group_signals(At(signal_group, 5), msg.v,
                           Ok(DbcSignalGroup(At(signal_group, 2), repetitions.v)))
                  ELSE repetitions
    IN  IF ~sig_gp.ok THEN Fail(d, sig_gp.err)
        ELSE Done(SetMessage(d, msg_id.v,
                      [msg.v EXCEPT !.signal_groups = Append(@, sig_gp.v)]))

RECURSIVE signal_groups_loop(_, _)
signal_groups_loop(signal_groups, r) ==
    IF signal_groups = <<>> \/ ~r.ok THEN r
    ELSE signal_groups_loop(Tail(signal_groups),
             process_signal_group(Head(signal_groups), r.dbc))

_process_signal_groups(ast_, d) == signal_groups_loop(ast_.signal_groups, Done(d))

-----------------------------------------------------------------------------
(* Attributes *)

DbcIntegerType(min, max) == [kind |-> "INTEGER", min |-> min, max |-> max, labels |-> <<>>]
DbcHexType(min, max) == [kind |-> "HEX", min |-> min, max |-> max, labels |-> <<>>]
DbcFloatType(min, max) == [kind |-> "FLOAT", min |-> min, max |-> max, labels |-> <<>>]
DbcEnumType(labels) == [kind |-> "ENUM", min |-> 0, max |-> 0, labels |-> labels]
DbcStringType == [kind |-> "STRING", min |-> 0, max |-> 0, labels |-> <<>>]

is_integer(value_type) == value_type.kind = "INTEGER"
is_hex(value_type) == value_type.kind = "HEX"
is_enum(value_type) == value_type.kind = "ENUM"
is_float(value_type) == value_type.kind = "FLOAT"
is_string(value_type) == value_type.kind = "STRING"

(* for more_label in more_labels: r is the list of labels so far *)
RECURSIVE enum_labels(_, _)
enum_labels(more_labels, r) ==
    IF more_labels = <<>> \/ ~r.ok THEN r
    ELSE LET label == read_char_string(At(Head(more_labels), 1))
         IN  enum_labels(Tail(more_labels),
                 IF label.ok THEN Ok(Append(r.v, label.v)) ELSE label)

(* The type spec is the str "STRING" or a list of three. *)
read_attribute_value_type(ast_) ==
    IF Len(ast_) = 3
    THEN LET attr_type == At(ast_, 0)
         IN  IF attr_type \in {"INT", "HEX"}
             THEN LET min == py_int(At(ast_, 1))
                      max == py_int(At(ast_, 2))
                  IN  IF ~min.ok THEN min
                      ELSE IF ~max.ok THEN max
                      ELSE IF attr_type = "INT" THEN Ok(DbcIntegerType(min.v, max.v))
                      ELSE Ok(DbcHexType(min.v, max.v))
             ELSE IF attr_type = "FLOAT"
             THEN LET min == py_float(At(ast_, 1))
                      max == py_float(At(ast_, 2))
                  IN  IF ~min.ok THEN min
                      ELSE IF ~max.ok THEN max
                      ELSE Ok(DbcFloatType(min.v, max.v))
             ELSE IF attr_type = "ENUM"
             THEN LET first_label == read_char_string(At(ast_, 1))
                      labels == IF first_label.ok
                                THEN enum_labels(At(ast_, 2), Ok(<<first_label.v>>))
                                ELSE first_label
                  IN  IF labels.ok THEN Ok(DbcEnumType(labels.v)) ELSE labels
             ELSE Raise("NotImplementedError")
    ELSE IF ast_ = "STRING" THEN Ok(DbcStringType)
    ELSE Raise("NotImplementedError")

(* The value of a DbcAttributeValue with its Python type *)
IntV(n) == [ty |-> "int", v |-> n]
FloatV(x) == [ty |-> "float", v |-> x]
StrV(cs) == [ty |-> "str", v |-> cs]

read_attribute_value_as_text(ast_, attribute) ==
    LET value == read_char_string(ast_)
    IN  IF value.ok THEN Ok(DbcAttributeValue(attribute, StrV(value.v))) ELSE value

read_attribute_value_clamped(ast_, attribute) ==
    LET value_type == attribute.value_type
    IN  IF is_integer(value_type) \/ is_hex(value_type)
        THEN LET value == py_int(ast_)
                 clamped == IF value.v < value_type.min THEN value_type.min
                            ELSE IF value.v > value_type.max THEN value_type.max
                            ELSE value.v
             IN  IF value.ok THEN Ok(DbcAttributeValue(attribute, IntV(clamped)))
                 ELSE value
        ELSE read_attribute_value_as_text(ast_, attribute)

read_attribute_value(ast_, attribute) ==
    LET value_type == attribute.value_type
    IN  IF is_integer(value_type) \/ is_hex(value_type)
        THEN LET value == py_int(ast_)
             IN  IF value.ok THEN Ok(DbcAttributeValue(attribute, IntV(value.v)))
                 ELSE value
        ELSE IF is_float(value_type)
        THEN LET value == py_float(ast_)
             IN  IF value.ok THEN Ok(DbcAttributeValue(attribute, FloatV(value.v)))
                 ELSE value
        ELSE IF is_string(value_type) \/ is_enum(value_type)
        THEN LET value == read_char_string(ast_)
             IN  IF value.ok THEN Ok(DbcAttributeValue(attribute, StrV(value.v)))
                 ELSE value
        ELSE Raise("NotImplementedError")

definition_object_type_global(attr_type, object_type) == Ok("GLOBAL")

(* The object type of a five-token BA_DEF_ / BA_DEF_REL_ statement *)
definition_object_type(attr_type, object_type) ==
    IF attr_type = "BA_DEF_" /\ object_type = "BU_" THEN Ok("NODE")
    ELSE IF attr_type = "BA_DEF_" /\ object_type = "BO_" THEN Ok("MESSAGE")
    ELSE IF attr_type = "BA_DEF_" /\ object_type = "SG_" THEN Ok("SIGNAL")
    ELSE IF attr_type = "BA_DEF_" /\ object_type = "EV_"
    THEN Ok("ENVIRONMENT_VARIABLE")
    ELSE IF attr_type = "BA_DEF_REL_" /\ object_type = "BU_BO_REL_"
    THEN Ok("NODE_MESSAGE")
    ELSE IF attr_type = "BA_DEF_REL_" /\ object_type = "BU_SG_REL_"
    THEN Ok("NODE_SIGNAL")
    ELSE IF attr_type = "BA_DEF_REL_" /\ object_type = "BU_EV_REL_"
    THEN Ok("NODE_ENVIRONMENT_VARIABLE")
    ELSE Raise("RuntimeError")

process_attribute_definition(attribute_definition, d) ==
    LET attr_type == At(attribute_definition, 0)
    IN  IF attr_type = "BA_DEF_" /\ Len(attribute_definition) = 4
        THEN LET attribute_name == At(attribute_definition, 1).name
                 attribute_type == read_attribute_value_type(At(attribute_definition, 2))
             IN  IF ~attribute_type.ok THEN Fail(d, attribute_type.err)
                 ELSE _add_attribute_definition(d,
                          DbcAttribute(attribute_name, attribute_type.v, "GLOBAL"))
        ELSE IF Len(attribute_definition) = 5
        THEN LET object_type == At(attribute_definition, 1)
                 attribute_name == At(attribute_definition, 2).name
                 attribute_type == read_attribute_value_type(At(attribute_definition, 3))
                 otype == definition_object_type(attr_type, object_type)
             IN  IF ~attribute_type.ok THEN Fail(d, attribute_type.err)
                 ELSE IF ~otype.ok THEN Fail(d, otype.err)
                 ELSE _add_attribute_definition(d,
                          DbcAttribute(attribute_name, attribute_type.v, otype.v))
        ELSE Fail(d, "RuntimeError")

RECURSIVE attribute_definitions_loop(_, _)
attribute_definitions_loop(attribute_definitions, r) ==
    IF attribute_definitions = <<>> \/ ~r.ok THEN r
    ELSE attribute_definitions_loop(Tail(attribute_definitions),
             process_attribute_definition(Head(attribute_definitions), r.dbc))

process_attribute_default(attribute_default, d) ==
    LET attribute_name == At(attribute_default, 1).name
        attr == get_attribute_definition(d, attribute_name)
        attribute_value == IF attr.ok
                           THEN read_attribute_value(At(attribute_default, 2), attr.v)
                           ELSE attr
    IN  IF ~attribute_value.ok THEN Fail(d, attribute_value.err)
        ELSE Done(SetAttributeDefinition(d, attribute_name,
                      [attr.v EXCEPT !.default = Some(attribute_value.v)]))

RECURSIVE attribute_defaults_loop(_, _)
attribute_defaults_loop(attribute_defaults, r) ==
    IF attribute_defaults = <<>> \/ ~r.ok THEN r
    ELSE attribute_defaults_loop(Tail(attribute_defaults),
             process_attribute_default(Head(attribute_defaults), r.dbc))

(* The attribute_values loop keeps the function's local variable node:   *)
(* None while it is unbound, Some(name) once a statement has assigned it. *)
Step(r, node) == [ok |-> r.ok, dbc |-> r.dbc, err |-> r.err, node |-> node]

(* print(f"... {node.name} ..."): UnboundLocalError while node is unbound *)
print_node_name(d, node) ==
    IF node = None THEN Fail(d, "UnboundLocalError") ELSE Done(d)

warn_and_store(d, node_name, attr_value) ==
    LET added == add_attribute(get_node(d, node_name).v, attr_value)
    IN  IF added.ok THEN Done(SetNode(d, node_name, added.v)) ELSE Fail(d, added.err)

(* print(f"Warning! Attribute ... ignored"): the value goes nowhere *)
warn_and_ignore(d, node_name, attr_value) == Done(d)

process_attribute_value(attribute_value, d, node) ==
    LET attr_type == At(attribute_value, 0)
        n == Len(attribute_value)
        attr == get_attribute_definition(d, At(attribute_value, 1).name)
    IN  IF attr_type = "BA_" /\ n = 4
        THEN LET attr_value == IF attr.ok
                               THEN read_attribute_value(At(attribute_value, 2), attr.v)
                               ELSE attr
             IN  IF ~attr_value.ok THEN Step(Fail(d, attr_value.err), node)
                 ELSE Step(add_attribute_value(d, attr_value.v), node)
        ELSE IF attr_type = "BA_" /\ n = 6
        THEN LET object_type == At(attribute_value, 2)
                 attr_value == IF attr.ok
                               THEN read_attribute_value(At(attribute_value, 4), attr.v)
                               ELSE attr
             IN  IF ~attr_value.ok THEN Step(Fail(d, attr_value.err), node)
                 ELSE IF object_type = "BU_"
                 THEN LET node_name == At(attribute_value, 3)
                          nd == get_node(d, node_name)
                          added == IF nd.ok THEN add_attribute(nd.v, attr_value.v)
                                   ELSE nd
                      IN  IF ~nd.ok THEN Step(Fail(d, nd.err), node)
                          ELSE IF ~added.ok
                          THEN Step(Fail(d, added.err), Some(node_name))
                          ELSE Step(Done(SetNode(d, node_name, added.v)),
                                    Some(node_name))
                 ELSE IF object_type = "BO_"
                 THEN LET msg_id == read_int(At(attribute_value, 3))
                          msg == IF msg_id.ok THEN get_message(d, msg_id.v) ELSE msg_id
                          added == IF msg.ok THEN add_attribute(msg.v, attr_value.v)
                                   ELSE msg
                      IN  IF ~added.ok THEN Step(Fail(d, added.err), node)
                          ELSE Step(Done(SetMessage(d, msg_id.v, added.v)), node)
                 ELSE IF object_type = "EV_"
                 THEN LET ev_name == At(attribute_value, 3)
                          ev == get_environment_variable(d, ev_name)
                          added == IF ev.ok THEN add_attribute(ev.v, attr_value.v)
                                   ELSE ev
                      IN  IF ~added.ok THEN Step(Fail(d, added.err), node)
                          ELSE Step(Done(SetEnvVar(d, ev_name, added.v)), node)
                 ELSE Step(Fail(d, "RuntimeError"), node)
        ELSE IF attr_type = "BA_REL_" /\ n = 6
        THEN LET nd == IF attr.ok THEN get_node(d, At(attribute_value, 3)) ELSE attr
                 attr_value == IF nd.ok
                               THEN read_attribute_value(At(attribute_value, 4), attr.v)
                               ELSE nd
             IN  IF ~attr_value.ok THEN Step(Fail(d, attr_value.err), node)
                 ELSE Step(Fail(d, "NotImplementedError"),
                           Some(At(attribute_value, 3)))
        ELSE IF n = 7
        THEN LET object_type == At(attribute_value, 2)
                 attr_value == IF attr.ok
                               THEN read_attribute_value(At(attribute_value, 5), attr.v)
                               ELSE attr
             IN  IF ~attr_value.ok THEN Step(Fail(d, attr_value.err), node)
                 ELSE IF attr_type = "BA_" /\ object_type = "SG_"
                 THEN LET msg_id == read_int(At(attribute_value, 3))
                          msg == IF msg_id.ok THEN get_message(d, msg_id.v) ELSE msg_id
                          sig_name == At(attribute_value, 4)
                          sig == IF msg.ok THEN get_signal(msg.v, sig_name) ELSE msg
                          added == IF sig.ok THEN add_attribute(sig.v, attr_value.v)
                                   ELSE sig
                      IN  IF ~added.ok THEN Step(Fail(d, added.err), node)
                          ELSE Step(Done(SetSignal(d, msg_id.v, sig_name, added.v)),
                                    node)
                 ELSE Step(Fail(d, "RuntimeError"), node)
        ELSE IF attr_type = "BA_REL_" /\ n = 8
        THEN LET object_type1 == At(attribute_value, 2)
                 node_name == At(attribute_value, 3)
                 nd == IF attr.ok THEN get_node(d, node_name) ELSE attr
                 object_type2 == At(attribute_value, 4)
                 attr_value == IF nd.ok
                               THEN read_attribute_value(At(attribute_value, 6), attr.v)
                               ELSE nd
             IN  IF ~nd.ok THEN Step(Fail(d, nd.err), node)
                 ELSE IF ~attr_value.ok
                 THEN Step(Fail(d, attr_value.err), Some(node_name))
                 ELSE IF object_type1 = "BU_BO_REL_" /\ object_type2 = "BO_"
                 THEN LET msg_id == read_int(At(attribute_value, 5))
                          msg == IF msg_id.ok THEN get_message(d, msg_id.v) ELSE msg_id
                      IN  IF ~msg.ok THEN Step(Fail(d, msg.err), Some(node_name))
                          ELSE Step(warn_and_ignore(d, node_name, attr_value.v),
                                    Some(node_name))
                 ELSE IF object_type1 = "BU_EV_REL_" /\ object_type2 = "EV_"
                 THEN LET ev == get_environment_variable(d, At(attribute_value, 5))
                      IN  IF ~ev.ok THEN Step(Fail(d, ev.err), Some(node_name))
                          ELSE Step(warn_and_ignore(d, node_name, attr_value.v),
                                    Some(node_name))
                 ELSE Step(Fail(d, "RuntimeError"), Some(node_name))
        ELSE IF attr_type = "BA_REL_" /\ n = 9
        THEN LET object_type1 == At(attribute_value, 2)
                 object_type2 == At(attribute_value, 4)
                 attr_value == IF attr.ok
                               THEN read_attribute_value(At(attribute_value, 7), attr.v)
                               ELSE attr
             IN  IF ~attr_value.ok THEN Step(Fail(d, attr_value.err), node)
                 ELSE IF object_type1 = "BU_SG_REL_" /\ object_type2 = "SG_"
                 THEN LET msg_id == read_int(At(attribute_value, 5))
                          msg == IF msg_id.ok THEN get_message(d, msg_id.v) ELSE msg_id
                          sig == IF msg.ok
                                 THEN get_signal(msg.v, At(attribute_value, 6))
                                 ELSE msg
                      IN  IF ~sig.ok THEN Step(Fail(d, sig.err), node)
                          ELSE Step(print_node_name(d, node), node)
                 ELSE Step(Fail(d, "RuntimeError"), node)
        ELSE Step(Fail(d, "RuntimeError"), node)

RECURSIVE attribute_values_loop(_, _)
attribute_values_loop(attribute_values, r) ==
    IF attribute_values = <<>> \/ ~r.ok THEN r
    ELSE attribute_values_loop(Tail(attribute_values),
             process_attribute_value(Head(attribute_values), r.dbc, r.node))

_process_attributes_values_early(ast_, d) ==
    LET definitions == attribute_definitions_loop(ast_.attribute_definitions, Done(d))
        values == attribute_values_loop(ast_.attribute_values, Step(definitions, None))
        defaults == attribute_defaults_loop(ast_.attribute_defaults,
                        [ok |-> values.ok, dbc |-> values.dbc, err |-> values.err])
    IN  defaults

_process_attributes(ast_, d) ==
    LET definitions == attribute_definitions_loop(ast_.attribute_definitions, Done(d))
        defaults == attribute_defaults_loop(ast_.attribute_defaults, definitions)
        values == attribute_values_loop(ast_.attribute_values, Step(defaults, None))
    IN  [ok |-> values.ok, dbc |-> values.dbc, err |-> values.err]

-----------------------------------------------------------------------------
(* create_dbc and parse_text *)

PassOrder_attributes_early ==
    <<"version", "nodes", "value_tables", "attributes", "messages",
      "environment_variables", "environment_variables_data", "comments",
      "value_descriptions", "signal_type_refs", "signal_groups", "return">>

PassOrder ==
    <<"version", "nodes", "value_tables", "messages", "environment_variables",
      "environment_variables_data", "comments", "attributes",
      "value_descriptions", "signal_type_refs", "signal_groups", "return">>

NextPass(p) == PassOrder[(CHOOSE i \in 1..Len(PassOrder) : PassOrder[i] = p) + 1]

(* What parse_text hands its caller when create_dbc ends in state r *)
parse_text_result_partial(r) == Some(r.dbc)

parse_text_result(r) == IF r.ok THEN Some(r.dbc) ELSE None

(* One pass of create_dbc, dbc = self._process_x(ast, dbc): the pass     *)
(* returns, or its exception leaves create_dbc and parse_text.           *)
RunPass(p, r) ==
    /\ dbc' = r.dbc
    /\ err' = r.err
    /\ pc' = IF r.ok THEN NextPass(p) ELSE "raised"
    /\ ret' = IF r.ok THEN ret ELSE parse_text_result(r)
    /\ UNCHANGED ast

ProcessVersion ==
    /\ pc = "version"
    /\ RunPass("version", _process_version(ast, dbc))

ProcessNodes ==
    /\ pc = "nodes"
    /\ RunPass("nodes", _process_nodes(ast, dbc))

ProcessValueTables ==
    /\ pc = "value_tables"
    /\ RunPass("value_tables", _process_value_tables(ast, dbc))

ProcessMessages ==
    /\ pc = "messages"
    /\ RunPass("messages", _process_messages(ast, dbc))

ProcessEnvironmentVariables ==
    /\ pc = "environment_variables"
    /\ RunPass("environment_variables", _process_environment_variables(ast, dbc))

ProcessEnvironmentVariablesData ==
    /\ pc = "environment_variables_data"
    /\ RunPass("environment_variables_data",
               _process_environment_variables_data(ast, dbc))

ProcessComments ==
    /\ pc = "comments"
    /\ RunPass("comments", _process_comments(ast, dbc))

ProcessAttributes ==
    /\ pc = "attributes"
    /\ RunPass("attributes", _process_attributes(ast, dbc))

ProcessValueDescriptions ==
    /\ pc = "value_descriptions"
    /\ RunPass("value_descriptions", _process_value_descriptions(ast, dbc))

ProcessSignalTypeRefs ==
    /\ pc = "signal_type_refs"
    /\ RunPass("signal_type_refs", _process_signal_type_refs(ast, dbc))

ProcessSignalGroups ==
    /\ pc = "signal_groups"
    /\ RunPass("signal_groups", _process_signal_groups(ast, dbc))

(* return dbc *)
Return ==
    /\ pc = "return"
    /\ ret' = parse_text_result(Done(dbc))
    /\ pc' = "done"
    /\ UNCHANGED <<ast, dbc, err>>

Next ==
    \/ ProcessVersion
    \/ ProcessNodes
    \/ ProcessValueTables
    \/ ProcessMessages
    \/ ProcessEnvironmentVariables
    \/ ProcessEnvironmentVariablesData
    \/ ProcessComments
    \/ ProcessAttributes
    \/ ProcessValueDescriptions
    \/ ProcessSignalTypeRefs
    \/ ProcessSignalGroups
    \/ Return

-----------------------------------------------------------------------------
(* Parse trees. A tree has the shape the passes index: the statement     *)
(* tuples below hold, at each index the code reads, the token it reads.  *)

MaxStmts == 2

Q(body) == <<QUOTE>> \o body \o <<QUOTE>>
Name(n) == [name |-> n]

(* Literals with the number they denote *)
IntLits ==
    <<[ast |-> Leaf(<<"1", "2", "3">>), val |-> 123],
      [ast |-> Branch(<<Leaf(<<"0">>), Branch(<<Leaf(<<"1", "2">>), Leaf(<<"3">>)>>)>>),
       val |-> 123],
      [ast |-> Leaf(<<"4", "5">>), val |-> 45],
      [ast |-> Leaf(<<"8">>), val |-> 8],
      [ast |-> Branch(<<Leaf(<<"1">>), Leaf(<<"8">>)>>), val |-> 18],
      [ast |-> Leaf(<<"2">>), val |-> 2],
      [ast |-> Branch(<<Leaf(<<"-">>), Leaf(<<"7">>)>>), val |-> -7],
      [ast |-> Leaf(<<"9", "9">>), val |-> 99]>>
I123 == IntLits[1].ast
I0123 == IntLits[2].ast
I45 == IntLits[3].ast
I8 == IntLits[4].ast
I18 == IntLits[5].ast
I2 == IntLits[6].ast
Im7 == IntLits[7].ast
I99 == IntLits[8].ast
IntOf(a) == IntLits[CHOOSE i \in 1..Len(IntLits) : IntLits[i].ast = a].val

FloatLits ==
    <<[ast |-> Leaf(<<"1">>), val |-> [m |-> 1, e |-> 0]],
      [ast |-> Leaf(<<"0">>), val |-> [m |-> 0, e |-> 0]],
      [ast |-> Branch(<<Leaf(<<"0">>), Leaf(<<".">>), Leaf(<<"5">>)>>),
       val |-> [m |-> 5, e |-> 1]],
      [ast |-> Branch(<<Leaf(<<"-">>), Leaf(<<"1", "0">>)>>), val |-> [m |-> -10, e |-> 0]],
      [ast |-> Leaf(<<"1", "0", ".", "0">>), val |-> [m |-> 10, e |-> 0]]>>
F1 == FloatLits[1].ast
F0 == FloatLits[2].ast
F05 == FloatLits[3].ast
Fm10 == FloatLits[4].ast
F10 == FloatLits[5].ast
FloatOf(a) == FloatLits[CHOOSE i \in 1..Len(FloatLits) : FloatLits[i].ast = a].val

(* The number tokens of VAL_ and attribute statements with the number  *)
(* they denote                                                          *)
ValueLits ==
    <<[tok |-> <<"1">>, val |-> [m |-> 1, e |-> 0]],
      [tok |-> <<"2">>, val |-> [m |-> 2, e |-> 0]],
      [tok |-> <<"0", ".", "5">>, val |-> [m |-> 5, e |-> 1]],
      [tok |-> <<"-", "7">>, val |-> [m |-> -7, e |-> 0]],
      [tok |-> <<"0">>, val |-> [m |-> 0, e |-> 0]],
      [tok |-> <<"3">>, val |-> [m |-> 3, e |-> 0]],
      [tok |-> <<"4">>, val |-> [m |-> 4, e |-> 0]],
      [tok |-> <<"5">>, val |-> [m |-> 5, e |-> 0]],
      [tok |-> <<"9">>, val |-> [m |-> 9, e |-> 0]],
      [tok |-> <<"2", "6">>, val |-> [m |-> 26, e |-> 0]]>>
ValueOf(tok) == ValueLits[CHOOSE i \in 1..Len(ValueLits) : ValueLits[i].tok = tok].val

(* The texts written between double quotes *)
Texts == {<<>>, <<"X">>, <<"Y">>, <<"m", "s">>}
TextOf(tok) == CHOOSE body \in Texts : Q(body) = tok

SG(name, start, size, order, sign, factor, offset, min, max, unit, receivers) ==
    [signal_name |-> name, start_bit |-> start, signal_size |-> size,
     byte_order |-> order, value_type |-> sign, factor |-> factor,
     offset |-> offset, minimum |-> min, maximum |-> max, unit |-> unit,
     receivers |-> receivers]

BO(id, name, size, transmitter, signals) ==
    [message_id |-> id, message_name |-> name, message_size |-> size,
     transmitter |-> transmitter, signals |-> signals]

EV(name, type, min, max, unit, init, id, access, anode, anodes) ==
    <<"EV_", name, ":", type, "[", min, "|", max, "]", unit, init, id, access,
      anode, anodes, ";">>

SignalCands ==
    <<SG("SIGNAL11", I18, I2, "1", "+", Some(F1), Some(F0), Some(F0), Some(F10),
         Q(<<>>), <<"NODE2">>),
      SG("SIGNAL12", I2, I8, "0", "-", Some(F05), Some(Fm10), Some(Fm10), Some(F10),
         Q(<<"m", "s">>), <<"NODE1", "NODE2">>),
      SG("SIGNAL11", I8, I18, "0", "-", Some(F10), Some(F1), None, None,
         Q(<<"X">>), <<"Vector__XXX">>),
      SG("SIGNAL13", I45, I2, "1", "-", None, None, Some(F0), Some(F1),
         Q(<<"Y">>), <<>>),
      SG("SIGNAL14", I18, I2, "2", "+", Some(F1), Some(F0), Some(F0), Some(F0),
         Q(<<>>), <<"NODE1">>),
      SG("SIGNAL15", I18, I2, "1", "u", Some(F1), Some(F0), Some(F0), Some(F0),
         Q(<<>>), <<"NODE1">>)>>

MessageCands ==
    <<BO(I123, "MESSAGE1", I8, "NODE1", <<SignalCands[1], SignalCands[2]>>),
      BO(I0123, "MESSAGE2", I2, "NODE2", <<>>),
      BO(I45, "MESSAGE3", I8, "Vector__XXX", <<SignalCands[1]>>),
      BO(I99, "MESSAGE4", I8, "NODE3", <<SignalCands[2], SignalCands[4]>>),
      BO(I8, "MESSAGE5", I2, "NODE1", <<SignalCands[1], SignalCands[3]>>)>>

EnvVarCands ==
    <<EV("EVAR1", "0", Some(Fm10), Some(F10), Q(<<"X">>), Some(F0), I2,
         "DUMMY_NODE_VECTOR0", "NODE1", <<>>),
      EV("EVAR1", "1", Some(F0), Some(F1), Q(<<"Y">>), Some(F1), I8,
         "DUMMY_NODE_VECTOR1", "NODE2", <<>>),
      EV("EVAR2", "2", Some(F0), Some(F0), Q(<<>>), Some(F0), I18,
         "DUMMY_NODE_VECTOR8000", "Vector__XXX", <<"NODE1", "NODE2">>),
      EV("EVAR3", "0", Some(F0), Some(F0), Q(<<>>), Some(F0), I45,
         "DUMMY_NODE_VECTOR3", "NODE3", <<>>),
      EV("EVAR4", "3", Some(F0), Some(F0), Q(<<>>), Some(F0), I45,
         "DUMMY_NODE_VECTOR2", "NODE1", <<>>),
      EV("EVAR5", "1", None, None, Q(<<"m", "s">>), Some(F05), I99,
         "DUMMY_NODE_VECTOR2", "NODE2", <<"Vector__XXX", "NODE1">>),
      EV("EVAR6", "0", Some(F0), Some(F0), Q(<<>>), Some(F0), I45,
         "DUMMY_NODE_VECTOR4", "NODE1", <<>>)>>

NodeCands == <<"NODE1", "NODE2", "NODE3">>

ValueTableCands ==
    <<<<"VAL_TABLE_", "vtname", << <<F1, Q(<<"X">>)>>, <<F0, Q(<<"Y">>)>> >>, ";">>,
      <<"VAL_TABLE_", "vtname", << <<F10, Q(<<"Y">>)>> >>, ";">>,
      <<"VAL_TABLE_", "other", << <<F1, Q(<<"X">>)>>, <<F05, Q(<<"X">>)>> >>, ";">>,
      <<"VAL_TABLE_", "third", << <<F05, Q(<<>>)>> >>, ";">> >>

VersionCands ==
    <<None, Some(<<"VERSION", Q(<<"X">>)>>), Some(<<"VERSION", Q(<<>>)>>),
      Some(<<"VERSION", Q(<<"m", "s">>)>>)>>

CommentCands ==
    <<<<"CM_", Q(<<"Y">>), ";">>,
      <<"CM_", Q(<<"m", "s">>), ";">>,
      <<"CM_", "BU_", "NODE1", Q(<<"X">>), ";">>,
      <<"CM_", "BO_", I0123, Q(<<"Y">>), ";">>,
      <<"CM_", "SG_", I123, "SIGNAL11", Q(<<"X">>), ";">>,
      <<"CM_", "EV_", "EVAR1", Q(<<"Y">>), ";">>,
      <<"CM_", "BU_", "GHOST", Q(<<"X">>), ";">>,
      <<"CM_", "SG_", I123, "SIGNAL13", Q(<<"X">>), ";">> >>

EnvVarDataCands ==
    <<<<"ENVVAR_DATA_", "EVAR1", ":", I8, ";">>,
      <<"ENVVAR_DATA_", "EVAR1", ":", I2, ";">>,
      <<"ENVVAR_DATA_", "EVAR9", ":", I8, ";">>,
      <<"ENVVAR_DATA_", "EVAR2", ":", I45, ";">>,
      <<"ENVVAR_DATA_", "EVAR2", ":", I0123, ";">>,
      <<"ENVVAR_DATA_", "EVAR5", ":", I18, ";">> >>

SignalTypeRefCands ==
    <<<<"SIG_VALTYPE_", I123, "SIGNAL11", ":", "0", ";">>,
      <<"SIG_VALTYPE_", I123, "SIGNAL11", ":", "1", ";">>,
      <<"SIG_VALTYPE_", I0123, "SIGNAL11", ":", "2", ";">>,
      <<"SIG_VALTYPE_", I123, "SIGNAL12", ":", "0", ";">>,
      <<"SIG_VALTYPE_", I123, "SIGNAL12", ":", "2", ";">>,
      <<"SIG_VALTYPE_", I123, "SIGNAL11", ":", "3", ";">>,
      <<"SIG_VALTYPE_", I123, "SIGNAL13", ":", "1", ";">> >>

ValueDescriptionCands ==
    <<<<"VAL_", I123, "SIGNAL11", << <<<<"1">>, Q(<<"X">>)>>, <<<<"2">>, Q(<<"Y">>)>> >>, ";">>,
      <<"VAL_", "EVAR1", << <<<<"1">>, Q(<<"X">>)>> >>, ";">>,
      <<"VAL_", I123, "SIGNAL13", << <<<<"1">>, Q(<<"X">>)>> >>, ";">>,
      <<"VAL_", I45, "SIGNAL11", << <<<<"1">>, Q(<<"X">>)>> >>, ";">>,
      <<"VAL_", "EVAR9", << <<<<"1">>, Q(<<"X">>)>> >>, ";">>,
      <<"VAL_", I0123, "SIGNAL11",
        << <<<<"1">>, Q(<<"X">>)>>, <<<<"0", ".", "5">>, Q(<<"X">>)>>,
           <<<<"1">>, Q(<<"X">>)>> >>, ";">>,
      <<"VAL_", I123, "SIGNAL12", << <<<<"-", "7">>, Q(<<>>)>> >>, ";">>,
      <<"VAL_", "EVAR1", << <<<<"2">>, Q(<<"m", "s">>)>>, <<<<"1">>, Q(<<"X">>)>> >>, ";">>,
      <<"VAL_", "EVAR2", << <<<<"2">>, Q(<<"Y">>)>> >>, ";">> >>

SignalGroupCands ==
    <<<<"SIG_GROUP_", I123, "GROUP1", I2, ":", <<"SIGNAL11", "SIGNAL12">>, ";">>,
      <<"SIG_GROUP_", I123, "GROUP2", I8, ":", <<"SIGNAL12">>, ";">>,
      <<"SIG_GROUP_", I123, "GROUP3", I2, ":", <<"SIGNAL11", "SIGNAL13">>, ";">>,
      <<"SIG_GROUP_", I45, "GROUP4", I2, ":", <<"SIGNAL11">>, ";">>,
      <<"SIG_GROUP_", I99, "GROUP5", I8, ":", <<"SIGNAL13", "SIGNAL12">>, ";">> >>

AttributeDefinitionCands ==
    <<<<"BA_DEF_", Name("GATTR"), "STRING", ";">>,
      <<"BA_DEF_", "BU_", Name("NATTR"), <<"INT", <<"0">>, <<"0">>>>, ";">>,
      <<"BA_DEF_", "BO_", Name("MATTR"), <<"HEX", <<"0">>, <<"9">>>>, ";">>,
      <<"BA_DEF_", "SG_", Name("SATTR"), <<"FLOAT", <<"0">>, <<"1">>>>, ";">>,
      <<"BA_DEF_", "EV_", Name("EATTR"),
        <<"ENUM", Q(<<"X">>), << <<",", Q(<<"Y">>)>> >> >>, ";">>,
      <<"BA_DEF_REL_", "BU_SG_REL_", Name("RATTR"), <<"INT", <<"0">>, <<"9">>>>, ";">>,
      <<"BA_DEF_REL_", "BU_BO_REL_", Name("BATTR"), <<"INT", <<"0">>, <<"9">>>>, ";">>,
      <<"BA_DEF_REL_", "BU_EV_REL_", Name("VATTR"), <<"INT", <<"0">>, <<"9">>>>, ";">>,
      <<"BA_DEF_", "BO_", Name("GATTR"), <<"INT", <<"0">>, <<"0">>>>, ";">> >>

AttributeDefaultCands ==
    <<<<"BA_DEF_DEF_", Name("GATTR"), Q(<<"X">>), ";">>,
      <<"BA_DEF_DEF_", Name("NATTR"), <<"0">>, ";">>,
      <<"BA_DEF_DEF_REL_", Name("RATTR"), <<"2">>, ";">>,
      <<"BA_DEF_DEF_", Name("ZATTR"), <<"0">>, ";">>,
      <<"BA_DEF_DEF_", Name("MATTR"), <<"9">>, ";">>,
      <<"BA_DEF_DEF_", Name("SATTR"), <<"1">>, ";">>,
      <<"BA_DEF_DEF_", Name("EATTR"), Q(<<"Y">>), ";">>,
      <<"BA_DEF_DEF_", Name("NATTR"), <<"5">>, ";">> >>

(* One default for each schema of BaseAst but the two ignored relations *)
BaseDefaults ==
    <<AttributeDefaultCands[1], AttributeDefaultCands[2], AttributeDefaultCands[5],
      AttributeDefaultCands[6], AttributeDefaultCands[7], AttributeDefaultCands[3]>>

AttributeValueCands ==
    <<<<"BA_", Name("GATTR"), Q(<<"Y">>), ";">>,
      <<"BA_", Name("NATTR"), "BU_", "NODE1", <<"5">>, ";">>,
      <<"BA_", Name("MATTR"), "BO_", I123, <<"2", "6">>, ";">>,
      <<"BA_", Name("SATTR"), "SG_", I123, "SIGNAL11", <<"0", ".", "5">>, ";">>,
      <<"BA_", Name("EATTR"), "EV_", "EVAR1", Q(<<"X">>), ";">>,
      <<"BA_REL_", Name("RATTR"), "BU_SG_REL_", "NODE2", "SG_", I123, "SIGNAL11",
        <<"3">>, ";">>,
      <<"BA_REL_", Name("RATTR"), "BU_SG_REL_", "GHOST", "SG_", I123, "SIGNAL11",
        <<"4">>, ";">>,
      <<"BA_REL_", Name("BATTR"), "BU_BO_REL_", "NODE1", "BO_", I123, <<"1">>, ";">>,
      <<"BA_REL_", Name("VATTR"), "BU_EV_REL_", "NODE2", "EV_", "EVAR1", <<"1">>, ";">>,
      <<"BA_", Name("NATTR"), "BU_", "GHOST", <<"5">>, ";">>,
      <<"BA_", Name("MATTR"), "BO_", I45, <<"2">>, ";">>,
      <<"BA_", Name("SATTR"), "SG_", I123, "SIGNAL13", <<"1">>, ";">>,
      <<"BA_", Name("EATTR"), "EV_", "EVAR9", Q(<<"X">>), ";">>,
      <<"BA_REL_", Name("BATTR"), "BU_BO_REL_", "GHOST", "BO_", I123, <<"1">>, ";">>,
      <<"BA_REL_", Name("RATTR"), "BU_SG_REL_", "NODE1", "SG_", I0123, "SIGNAL11",
        <<"4">>, ";">>,
      <<"BA_", Name("SATTR"), "SG_", I0123, "SIGNAL11", <<"1">>, ";">>,
      <<"BA_", Name("MATTR"), "BU_", "NODE1", <<"2">>, ";">>,
      <<"BA_", Name("NATTR"), <<"5">>, ";">> >>

(* The BA_ statements read after a BA_DEF_DEF_ that names no schema *)
UndeclaredDefault == <<AttributeDefaultCands[4]>>
ValuesAfterUndeclaredDefault == SubSeq(AttributeValueCands, 1, 6)

(* The tree of a file that declares two nodes, two messages with two    *)
(* signals each, three environment variables and eight attribute        *)
(* schemas.                                                             *)
BaseAst ==
    [version |-> None,
     nodes |-> [node_names |-> <<"NODE1", "NODE2">>],
     value_tables |-> <<>>,
     messages |-> <<MessageCands[1], MessageCands[4]>>,
     environment_variables |-> <<EnvVarCands[1], EnvVarCands[3], EnvVarCands[6]>>,
     environment_variables_data |-> <<>>,
     signal_type_refs |-> <<>>,
     comments |-> <<>>,
     attribute_definitions |-> SubSeq(AttributeDefinitionCands, 1, 8),
     attribute_defaults |-> <<>>,
     attribute_values |-> <<>>,
     value_descriptions |-> <<>>,
     signal_groups |-> <<>>]

(* The lists of at most MaxStmts statements drawn from cands *)
Picks(cands) == UNION {[1..k -> 1..Len(cands)] : k \in 0..MaxStmts}
Pick(cands, f) == [i \in DOMAIN f |-> cands[f[i]]]

Sections ==
    {"comments", "nodes", "value_tables", "messages", "signals",
     "environment_variables", "environment_variables_data", "signal_type_refs",
     "attribute_definitions", "attribute_defaults", "attribute_values",
     "value_descriptions", "signal_groups", "defaulted_attribute_values",
     "undeclared_default_attribute_values"}

(* The tree that differs from BaseAst in one section *)
AstWith(section, f, v) ==
    IF section = "comments"
    THEN [BaseAst EXCEPT !.version = VersionCands[v],
                         !.comments = Pick(CommentCands, f)]
    ELSE IF section = "nodes"
    THEN [BaseAst EXCEPT !.nodes = [node_names |-> Pick(NodeCands, f)]]
    ELSE IF section = "value_tables"
    THEN [BaseAst EXCEPT !.value_tables = Pick(ValueTableCands, f)]
    ELSE IF section = "messages"
    THEN [BaseAst EXCEPT !.messages = Pick(MessageCands, f)]
    ELSE IF section = "signals"
    THEN [BaseAst EXCEPT !.messages =
              <<BO(I123, "MESSAGE1", I8, "NODE1", Pick(SignalCands, f))>>]
    ELSE IF section = "environment_variables"
    THEN [BaseAst EXCEPT !.environment_variables = Pick(EnvVarCands, f)]
    ELSE IF section = "environment_variables_data"
    THEN [BaseAst EXCEPT !.environment_variables_data = Pick(EnvVarDataCands, f)]
    ELSE IF section = "signal_type_refs"
    THEN [BaseAst EXCEPT !.signal_type_refs = Pick(SignalTypeRefCands, f)]
    ELSE IF section = "attribute_definitions"
    THEN [BaseAst EXCEPT !.attribute_definitions = Pick(AttributeDefinitionCands, f)]
    ELSE IF section = "attribute_defaults"
    THEN [BaseAst EXCEPT !.attribute_defaults = Pick(AttributeDefaultCands, f)]
    ELSE IF section = "attribute_values"
    THEN [BaseAst EXCEPT !.attribute_values = Pick(AttributeValueCands, f)]
    ELSE IF section = "defaulted_attribute_values"
    THEN [BaseAst EXCEPT !.attribute_defaults = BaseDefaults,
                         !.attribute_values = Pick(AttributeValueCands, f)]
    ELSE IF section = "undeclared_default_attribute_values"
    THEN [BaseAst EXCEPT !.attribute_defaults = UndeclaredDefault,
                         !.attribute_values = Pick(ValuesAfterUndeclaredDefault, f)]
    ELSE IF section = "value_descriptions"
    THEN [BaseAst EXCEPT !.value_descriptions = Pick(ValueDescriptionCands, f)]
    ELSE [BaseAst EXCEPT !.signal_groups = Pick(SignalGroupCands, f)]

CandsOf(section) ==
    IF section = "comments" THEN CommentCands
    ELSE IF section = "nodes" THEN NodeCands
    ELSE IF section = "value_tables" THEN ValueTableCands
    ELSE IF section = "messages" THEN MessageCands
    ELSE IF section = "signals" THEN SignalCands
    ELSE IF section = "environment_variables" THEN EnvVarCands
    ELSE IF section = "environment_variables_data" THEN EnvVarDataCands
    ELSE IF section = "signal_type_refs" THEN SignalTypeRefCands
    ELSE IF section = "attribute_definitions" THEN AttributeDefinitionCands
    ELSE IF section = "attribute_defaults" THEN AttributeDefaultCands
    ELSE IF section \in {"attribute_values", "defaulted_attribute_values"}
    THEN AttributeValueCands
    ELSE IF section = "undeclared_default_attribute_values"
    THEN ValuesAfterUndeclaredDefault
    ELSE IF section = "value_descriptions" THEN ValueDescriptionCands
    ELSE SignalGroupCands

(* create_dbc has built dbc = DbcFile() and holds the tree of the text *)
Init ==
    /\ \E section \in Sections :
         \E f \in Picks(CandsOf(section)) :
           \E v \in 1..Len(VersionCands) :
             /\ (section # "comments" => v = 1)
             /\ ast = AstWith(section, f, v)
    /\ pc = "version"
    /\ dbc = DbcFile
    /\ err = "none"
    /\ ret = None

Spec == Init /\ [][Next]_vars

-----------------------------------------------------------------------------
(* What the tree declares, read off the statements' tokens with the      *)
(* literal tables, not with the readers of the code.                     *)

Max(S) == CHOOSE x \in S : \A y \in S : y <= x
Min(S) == CHOOSE x \in S : \A y \in S : x <= y
NoDup(keys) ==
    \A i, j \in 1..Len(keys) : i # j => keys[i] # keys[j]
FirstOf(keys, k) == Min({i \in 1..Len(keys) : keys[i] = k})

Returned == ret[1]

FileComments == {i \in 1..Len(ast.comments) : Len(ast.comments[i]) = 3}

NodeKeys == ast.nodes.node_names
MessageKeys == [i \in 1..Len(ast.messages) |-> IntOf(ast.messages[i].message_id)]
SignalKeys(i) ==
    [j \in 1..Len(ast.messages[i].signals) |-> ast.messages[i].signals[j].signal_name]
EnvVarKeys ==
    [i \in 1..Len(ast.environment_variables) |-> ast.environment_variables[i][2]]
ValueTableKeys == [i \in 1..Len(ast.value_tables) |-> ast.value_tables[i][2]]
DefinitionKeys ==
    [i \in 1..Len(ast.attribute_definitions) |->
        IF Len(ast.attribute_definitions[i]) = 4
        THEN ast.attribute_definitions[i][2].name
        ELSE ast.attribute_definitions[i][3].name]

-----------------------------------------------------------------------------
(* C1: a freshly built DbcFile has version "N/A"; when the text has no   *)
(* file-level CM_ comment, the returned DbcFile has the text X of the    *)
(* VERSION "X" directive as its version, and "N/A" when there is no      *)
(* VERSION directive either.                                             *)
C1_VersionFromDirective ==
    /\ pc = "version" => dbc.version = NA
    /\ (pc = "done" /\ FileComments = {}) =>
          Returned.version =
              IF ast.version = None THEN NA ELSE TextOf(ast.version[1][2])

C1_Witness ==
    /\ pc = "done"
    /\ FileComments = {}
    /\ ast.comments # <<>>
    /\ ast.version # None
    /\ Returned.version = <<"m", "s">>

(* C2: when the text has file-level comments, the returned version is    *)
(* the text of the last of them in source order, whatever the VERSION    *)
(* directive says and whatever node, message, signal or environment      *)
(* variable comments stand before, between or after them.                *)
C2_LastFileCommentIsVersion ==
    (pc = "done" /\ FileComments # {}) =>
        Returned.version = TextOf(ast.comments[Max(FileComments)][2])

C2_Witness ==
    /\ pc = "done"
    /\ ast.version # None
    /\ Len(ast.comments) = 2
    /\ FileComments = {1}
    /\ Returned.version = TextOf(ast.comments[1][2])
    /\ Returned.version # TextOf(ast.version[1][2])

(* C3: parse_text hands its caller a DbcFile only when every pass has    *)
(* returned, and then the fully bound one; a pass that raises ends the   *)
(* call with the exception and no DbcFile, however much of the object    *)
(* model the passes had filled in by then.                               *)
C3_NoPartialModel ==
    /\ pc = "raised" => (ret = None /\ err # "none")
    /\ pc # "done" => ret = None
    /\ pc = "done" => (ret = Some(dbc) /\ err = "none")

C3_Witness ==
    /\ pc = "raised"
    /\ ret = None
    /\ ast.version = None
    /\ dbc.version # NA
    /\ dbc.nodes_by_name # <<>>

(* C4: in every state each index maps a key to the entity of the first   *)
(* declaration of that key, so no later declaration replaces it; a tree  *)
(* that declares a key twice in one index never yields a DbcFile; and in *)
(* a returned DbcFile every declared key is retrievable and maps to the  *)
(* entity that carries it.                                               *)
C4_FirstDeclarationKept ==
    /\ \A n \in 1..Len(dbc.nodes_by_name) :
          dbc.nodes_by_name[n].v.name = dbc.nodes_by_name[n].k
    /\ \A n \in 1..Len(dbc.messages_by_id) :
          LET k == dbc.messages_by_id[n].k
              m == dbc.messages_by_id[n].v
              first == ast.messages[FirstOf(MessageKeys, k)]
          IN  /\ m.id = k
              /\ m.name = first.message_name
              /\ Len(m.signals_by_name) = Len(first.signals)
    /\ \A n \in 1..Len(dbc.environment_variables_by_name) :
          LET k == dbc.environment_variables_by_name[n].k
              ev == dbc.environment_variables_by_name[n].v
              first == ast.environment_variables[FirstOf(EnvVarKeys, k)]
          IN  /\ ev.name = k
              /\ ev.unit = TextOf(first[10])
    /\ \A n \in 1..Len(dbc.value_tables_by_name) :
          LET k == dbc.value_tables_by_name[n].k
              vt == dbc.value_tables_by_name[n].v
              first == ast.value_tables[FirstOf(ValueTableKeys, k)]
          IN  /\ vt.name = k
              /\ Len(vt.values) = Len(first[3])
    /\ \A n \in 1..Len(dbc.attribute_definitions) :
          LET k == dbc.attribute_definitions[n].k
              a == dbc.attribute_definitions[n].v
              first == ast.attribute_definitions[FirstOf(DefinitionKeys, k)]
          IN  /\ a.name = k
              /\ (a.object_type = "GLOBAL") = (Len(first) = 4)

C4_UniqueKeys ==
    /\ C4_FirstDeclarationKept
    /\ pc = "done" =>
          /\ NoDup(NodeKeys) /\ NoDup(MessageKeys) /\ NoDup(EnvVarKeys)
          /\ NoDup(ValueTableKeys) /\ NoDup(DefinitionKeys)
          /\ \A i \in 1..Len(ast.messages) : NoDup(SignalKeys(i))
          /\ \A i \in 1..Len(NodeKeys) :
                /\ has_node(Returned, NodeKeys[i])
                /\ get_node(Returned, NodeKeys[i]).v.name = NodeKeys[i]
          /\ \A i \in 1..Len(MessageKeys) :
                /\ has_message(Returned, MessageKeys[i])
                /\ get_message(Returned, MessageKeys[i]).v.id = MessageKeys[i]
                /\ \A j \in 1..Len(SignalKeys(i)) :
                      LET sig == get_signal(get_message(Returned, MessageKeys[i]).v,
                                            SignalKeys(i)[j])
                      IN  sig.ok /\ sig.v.name = SignalKeys(i)[j]
          /\ \A i \in 1..Len(EnvVarKeys) :
                LET ev == get_environment_variable(Returned, EnvVarKeys[i])
                IN  ev.ok /\ ev.v.name = EnvVarKeys[i]
          /\ \A i \in 1..Len(ValueTableKeys) :
                /\ has_value_table(Returned, ValueTableKeys[i])
                /\ get_value_table(Returned, ValueTableKeys[i]).v.name
                      = ValueTableKeys[i]
          /\ \A i \in 1..Len(DefinitionKeys) :
                /\ has_attribute_definition(Returned, DefinitionKeys[i])
                /\ get_attribute_definition(Returned, DefinitionKeys[i]).v.name
                      = DefinitionKeys[i]

C4_Witness ==
    /\ pc = "raised"
    /\ Len(ast.messages) = 2
    /\ MessageKeys[1] = MessageKeys[2]
    /\ ast.messages[1].message_name # ast.messages[2].message_name
    /\ has_message(dbc, MessageKeys[1])
    /\ get_message(dbc, MessageKeys[1]).v.name = ast.messages[1].message_name

-----------------------------------------------------------------------------
(* Whether the tree declares what a statement names *)

InSeq(keys, k) == \E i \in 1..Len(keys) : keys[i] = k
NodeDeclared(n) == InSeq(NodeKeys, n)
MessageDeclared(id) == InSeq(MessageKeys, IntOf(id))
SignalDeclared(id, name) ==
    \E i \in 1..Len(MessageKeys) :
        MessageKeys[i] = IntOf(id) /\ InSeq(SignalKeys(i), name)
EnvVarDeclared(n) == InSeq(EnvVarKeys, n)
SchemaDeclared(tok) == InSeq(DefinitionKeys, tok.name)

CommentBound(c) ==
    /\ (Len(c) = 5 /\ c[2] = "BU_") => NodeDeclared(c[3])
    /\ (Len(c) = 5 /\ c[2] = "BO_") => MessageDeclared(c[3])
    /\ (Len(c) = 5 /\ c[2] = "EV_") => EnvVarDeclared(c[3])
    /\ Len(c) = 6 => SignalDeclared(c[3], c[4])

AttributeValueBound(av) ==
    /\ SchemaDeclared(av[2])
    /\ (Len(av) = 6 /\ av[3] = "BU_") => NodeDeclared(av[4])
    /\ (Len(av) = 6 /\ av[3] = "BO_") => MessageDeclared(av[4])
    /\ (Len(av) = 6 /\ av[3] = "EV_") => EnvVarDeclared(av[4])
    /\ Len(av) = 7 => SignalDeclared(av[4], av[5])
    /\ Len(av) \in {8, 9} => (NodeDeclared(av[4]) \/ av[4] = "Vector__XXX")
    /\ (Len(av) = 8 /\ av[5] = "BO_") => MessageDeclared(av[6])
    /\ (Len(av) = 8 /\ av[5] = "EV_") => EnvVarDeclared(av[6])
    /\ Len(av) = 9 => SignalDeclared(av[6], av[7])

ValueDescriptionBound(vd) ==
    /\ Len(vd) = 5 => SignalDeclared(vd[2], vd[3])
    /\ Len(vd) = 4 => EnvVarDeclared(vd[2])

SignalGroupBound(sg) ==
    \A j \in 1..Len(sg[6]) : SignalDeclared(sg[2], sg[6][j])

(* C5: in a returned DbcFile every comment, attribute default, attribute *)
(* value, value description, SIG_VALTYPE_, SIG_GROUP_ and ENVVAR_DATA_   *)
(* statement names only declared nodes, messages, signals, environment   *)
(* variables and attribute schemas (Vector__XXX excepted): a statement   *)
(* that names an undeclared one fails the parse.                         *)
C5_EveryReferenceDeclared ==
    pc = "done" =>
        /\ \A i \in 1..Len(ast.comments) : CommentBound(ast.comments[i])
        /\ \A i \in 1..Len(ast.attribute_defaults) :
              SchemaDeclared(ast.attribute_defaults[i][2])
        /\ \A i \in 1..Len(ast.attribute_values) :
              AttributeValueBound(ast.attribute_values[i])
        /\ \A i \in 1..Len(ast.value_descriptions) :
              ValueDescriptionBound(ast.value_descriptions[i])
        /\ \A i \in 1..Len(ast.signal_type_refs) :
              SignalDeclared(ast.signal_type_refs[i][2], ast.signal_type_refs[i][3])
        /\ \A i \in 1..Len(ast.signal_groups) :
              SignalGroupBound(ast.signal_groups[i])
        /\ \A i \in 1..Len(ast.environment_variables_data) :
              EnvVarDeclared(ast.environment_variables_data[i][2])

(* C6: in a returned DbcFile the message of BO_ <id> <name> : <size> <T> *)
(* with k signals has that id, name and size and exactly k signals, and  *)
(* its transmitter is an object whose name is T.                         *)
C6_MessageFieldsAndTransmitter ==
    pc = "done" =>
        \A i \in 1..Len(ast.messages) :
            LET parsed == ast.messages[i]
                msg == get_message(Returned, IntOf(parsed.message_id))
            IN  /\ msg.ok
                /\ msg.v.id = IntOf(parsed.message_id)
                /\ msg.v.name = parsed.message_name
                /\ msg.v.size = IntOf(parsed.message_size)
                /\ Len(msg.v.signals_by_name) = Len(parsed.signals)
                /\ attr_name(msg.v.transmitter).ok
                /\ attr_name(msg.v.transmitter).v = parsed.transmitter

(* The signals of the tree: message i, signal j *)
DeclaredSignals ==
    UNION {{<<i, j>> : j \in 1..Len(ast.messages[i].signals)} :
              i \in 1..Len(ast.messages)}
ParsedSignal(ij) == ast.messages[ij[1]].signals[ij[2]]
BoundSignal(d, ij) ==
    get_signal(get_message(d, MessageKeys[ij[1]]).v, ParsedSignal(ij).signal_name).v

(* The SIG_VALTYPE_ statements with code 1 or 2 that name signal ij *)
Overrides(ij) ==
    {n \in 1..Len(ast.signal_type_refs) :
        /\ ast.signal_type_refs[n][1] = "SIG_VALTYPE_"
        /\ IntOf(ast.signal_type_refs[n][2]) = MessageKeys[ij[1]]
        /\ ast.signal_type_refs[n][3] = ParsedSignal(ij).signal_name
        /\ ast.signal_type_refs[n][5] \in {"1", "2"}}

SignOf_token(tok) == IF tok = "+" THEN "UNSIGNED" ELSE "SIGNED"

(* C7: the signal of SG_ S : b|n@o<sign> (f,off) [lo|hi] "u" has name S, *)
(* start_bit b, size n, factor f, offset off, minimum lo, maximum hi and *)
(* unit u without its quotes, in every state after the messages pass;    *)
(* its value_type is UNSIGNED for '+' and SIGNED for '-' from the        *)
(* messages pass on, until a SIG_VALTYPE_ statement overrides it.        *)
C7_SignalFields ==
    pc \notin {"version", "nodes", "value_tables", "messages", "raised"} =>
        \A ij \in DeclaredSignals :
            LET parsed == ParsedSignal(ij)
                sig == BoundSignal(dbc, ij)
            IN  /\ sig.name = parsed.signal_name
                /\ sig.start_bit = IntOf(parsed.start_bit)
                /\ sig.size = IntOf(parsed.signal_size)
                /\ parsed.factor # None => sig.factor = Some(FloatOf(parsed.factor[1]))
                /\ parsed.offset # None => sig.offset = Some(FloatOf(parsed.offset[1]))
                /\ parsed.minimum # None =>
                      sig.minimum = Some(FloatOf(parsed.minimum[1]))
                /\ parsed.maximum # None =>
                      sig.maximum = Some(FloatOf(parsed.maximum[1]))
                /\ sig.unit = TextOf(parsed.unit)
                /\ parsed.value_type \in {"+", "-"}
                /\ (Overrides(ij) = {} \/ pc \notin {"signal_groups", "return", "done"})
                      => sig.value_type = SignOf_token(parsed.value_type)

C7_Witness ==
    /\ pc = "done"
    /\ \E ij \in DeclaredSignals :
          /\ ParsedSignal(ij).value_type = "-"
          /\ ParsedSignal(ij).start_bit = I2
          /\ ParsedSignal(ij).signal_size = I8
          /\ BoundSignal(Returned, ij).start_bit = 2
          /\ BoundSignal(Returned, ij).size = 8
          /\ BoundSignal(Returned, ij).value_type = "SIGNED"
          /\ BoundSignal(Returned, ij).factor = Some([m |-> 5, e |-> 1])
          /\ BoundSignal(Returned, ij).unit = <<"m", "s">>

C9_ReceiversResolved ==
    pc = "done" =>
        \A ij \in DeclaredSignals :
            LET parsed == ParsedSignal(ij)
                sig == BoundSignal(Returned, ij)
            IN  /\ "receivers" \in DOMAIN sig
                /\ Len(sig.receivers) = Len(parsed.receivers)
                /\ \A n \in 1..Len(parsed.receivers) :
                      /\ attr_name(sig.receivers[n]).ok
                      /\ attr_name(sig.receivers[n]).v = parsed.receivers[n]

(* C10: in a returned DbcFile every SIG_VALTYPE_ code is 0, 1 or 2, and  *)
(* the value_type of each signal is the one of the last SIG_VALTYPE_     *)
(* statement naming it with code 1 (FLOAT32) or 2 (FLOAT64), or the      *)
(* declared UNSIGNED / SIGNED when there is none: code 0 and statements  *)
(* for other signals change nothing.                                     *)
C10_LastNonZeroCodeWins ==
    pc = "done" =>
        /\ \A n \in 1..Len(ast.signal_type_refs) :
              ast.signal_type_refs[n][5] \in {"0", "1", "2"}
        /\ \A ij \in DeclaredSignals :
              BoundSignal(Returned, ij).value_type =
                  IF Overrides(ij) = {}
                  THEN SignOf_token(ParsedSignal(ij).value_type)
                  ELSE IF ast.signal_type_refs[Max(Overrides(ij))][5] = "1"
                       THEN "FLOAT32" ELSE "FLOAT64"

C10_Witness ==
    /\ pc = "done"
    /\ Len(ast.signal_type_refs) = 2
    /\ ast.signal_type_refs[1][5] = "2"
    /\ ast.signal_type_refs[2][5] = "0"
    /\ ast.signal_type_refs[1][3] = "SIGNAL11"
    /\ ast.signal_type_refs[2][3] = "SIGNAL11"
    /\ \E ij, kl \in DeclaredSignals :
          /\ ParsedSignal(ij).signal_name = "SIGNAL11"
          /\ BoundSignal(Returned, ij).value_type = "FLOAT64"
          /\ ParsedSignal(kl).signal_name = "SIGNAL12"
          /\ BoundSignal(Returned, kl).value_type = "SIGNED"

(* The environment variables of the tree, and the returned entity of each *)
DeclaredEnvVars == 1..Len(ast.environment_variables)
ParsedEnvVar(i) == ast.environment_variables[i]
BoundEnvVar(d, i) == get_environment_variable(d, ParsedEnvVar(i)[2]).v

(* The ENVVAR_DATA_ statements that name environment variable i *)
DataStatements(i) ==
    {n \in 1..Len(ast.environment_variables_data) :
        ast.environment_variables_data[n][2] = ParsedEnvVar(i)[2]}

EnvVarTypeOfCode(code) ==
    IF code = "0" THEN "INTEGER" ELSE IF code = "1" THEN "FLOAT" ELSE "STRING"

(* C11: from the ENVVAR_DATA_ pass on, an environment variable named by  *)
(* ENVVAR_DATA_ statements has type DATA and the data_size of the last   *)
(* of them, whatever its EV_ type code; one that none names has the type *)
(* of its EV_ type code (0 INTEGER, 1 FLOAT, 2 STRING) and data_size 0.  *)
C11_EnvVarDataPromotion ==
    pc \in {"comments", "attributes", "value_descriptions", "signal_type_refs",
            "signal_groups", "return", "done"} =>
        \A i \in DeclaredEnvVars :
            LET ev == BoundEnvVar(dbc, i)
            IN  /\ ParsedEnvVar(i)[4] \in {"0", "1", "2"}
                /\ IF DataStatements(i) = {}
                   THEN /\ ev.type = EnvVarTypeOfCode(ParsedEnvVar(i)[4])
                        /\ ev.data_size = 0
                   ELSE /\ ev.type = "DATA"
                        /\ ev.data_size =
                              IntOf(ast.environment_variables_data[
                                        Max(DataStatements(i))][4])

C11_Witness ==
    /\ pc = "done"
    /\ \E i, j \in DeclaredEnvVars :
          /\ ParsedEnvVar(i)[4] = "2"
          /\ Cardinality(DataStatements(i)) = 2
          /\ ast.environment_variables_data[1][4] = I45
          /\ ast.environment_variables_data[2][4] = I0123
          /\ BoundEnvVar(Returned, i).type = "DATA"
          /\ BoundEnvVar(Returned, i).data_size = 123
          /\ ParsedEnvVar(j)[4] = "1"
          /\ BoundEnvVar(Returned, j).type = "FLOAT"
          /\ BoundEnvVar(Returned, j).data_size = 0

(* The (value, label) pairs a VAL_ statement lists *)
DescribedPairs(values) ==
    [k \in 1..Len(values) |-> <<ValueOf(values[k][1]), TextOf(values[k][2])>>]

NamesSignal(vd, ij) ==
    /\ Len(vd) = 5
    /\ IntOf(vd[2]) = MessageKeys[ij[1]]
    /\ vd[3] = ParsedSignal(ij).signal_name

NamesEnvVar(vd, i) == Len(vd) = 4 /\ vd[2] = ParsedEnvVar(i)[2]

(* The pairs of the first n VAL_ statements that name signal ij, or      *)
(* environment variable i, one statement after the other                  *)
RECURSIVE SignalDescriptions(_, _)
SignalDescriptions(ij, n) ==
    IF n = 0 THEN <<>>
    ELSE SignalDescriptions(ij, n - 1) \o
         (IF NamesSignal(ast.value_descriptions[n], ij)
          THEN DescribedPairs(ast.value_descriptions[n][4]) ELSE <<>>)

RECURSIVE EnvVarDescriptions(_, _)
EnvVarDescriptions(i, n) ==
    IF n = 0 THEN <<>>
    ELSE EnvVarDescriptions(i, n - 1) \o
         (IF NamesEnvVar(ast.value_descriptions[n], i)
          THEN DescribedPairs(ast.value_descriptions[n][3]) ELSE <<>>)

(* C12: in a returned DbcFile the value_descriptions of every signal and *)
(* of every environment variable is the sequence of (value, label) pairs *)
(* of the VAL_ statements naming it, in source order, repeated pairs     *)
(* kept, and nothing from VAL_ statements naming another entity.         *)
C12_ValueDescriptionsInSourceOrder ==
    pc = "done" =>
        /\ \A ij \in DeclaredSignals :
              BoundSignal(Returned, ij).value_descriptions =
                  SignalDescriptions(ij, Len(ast.value_descriptions))
        /\ \A i \in DeclaredEnvVars :
              BoundEnvVar(Returned, i).value_descriptions =
                  EnvVarDescriptions(i, Len(ast.value_descriptions))

C12_Witness ==
    /\ pc = "done"
    /\ Len(ast.value_descriptions) = 2
    /\ \E ij, kl \in DeclaredSignals :
          /\ NamesSignal(ast.value_descriptions[1], ij)
          /\ NamesSignal(ast.value_descriptions[2], ij)
          /\ Len(ast.value_descriptions[1][4]) = 3
          /\ BoundSignal(Returned, ij).value_descriptions =
                <<<<[m |-> 1, e |-> 0], <<"X">>>>, <<[m |-> 5, e |-> 1], <<"X">>>>,
                  <<[m |-> 1, e |-> 0], <<"X">>>>, <<[m |-> 1, e |-> 0], <<"X">>>>,
                  <<[m |-> 2, e |-> 0], <<"Y">>>> >>
          /\ kl # ij
          /\ BoundSignal(Returned, kl).value_descriptions = <<>>

C12_WitnessEnvVar ==
    /\ pc = "done"
    /\ Len(ast.value_descriptions) = 2
    /\ NamesEnvVar(ast.value_descriptions[2], 1)
    /\ NamesSignal(ast.value_descriptions[1], <<1, 1>>)
    /\ Len(BoundEnvVar(Returned, 1).value_descriptions) = 2
    /\ BoundEnvVar(Returned, 2).value_descriptions = <<>>

(* The value tables of the tree *)
DeclaredValueTables == 1..Len(ast.value_tables)
ParsedValueTable(i) == ast.value_tables[i]

(* Table i of d holds the pairs of its declaration, one entry per pair, *)
(* in declaration order                                                  *)
ValueTableAsDeclared(d, i) ==
    LET pairs == ParsedValueTable(i)[3]
        vt == get_value_table(d, ParsedValueTable(i)[2])
    IN  /\ vt.ok
        /\ Len(vt.v.values) = Len(pairs)
        /\ \A k \in 1..Len(pairs) :
              /\ vt.v.values[k].k = TextOf(pairs[k][2])
              /\ vt.v.values[k].v = FloatOf(pairs[k][1])

(* C13: the value-table pass does not fail on value tables with distinct *)
(* names, whether or not two pairs of a table carry the same label, and  *)
(* stores each table with one entry per declared pair, in declaration    *)
(* order, entry i holding the i-th label and the i-th value.             *)
C13_ValueTableKeepsEveryPair ==
    [][(pc = "value_tables" /\ NoDup(ValueTableKeys)) =>
          /\ pc' = "messages"
          /\ \A i \in DeclaredValueTables : ValueTableAsDeclared(dbc', i)]_vars

-----------------------------------------------------------------------------
(* Attributes as the statements declare them *)

(* The BA_DEF_ / BA_DEF_REL_ statement that declares schema name *)
DefinitionOf(name) ==
    ast.attribute_definitions[
        CHOOSE i \in 1..Len(DefinitionKeys) : DefinitionKeys[i] = name]

DeclaredKind(definition) ==
    LET type == definition[Len(definition) - 1]
    IN  IF Len(type) # 3 THEN "STRING"
        ELSE IF type[1] = "INT" THEN "INTEGER" ELSE type[1]

DeclaredObjectType(definition) ==
    IF Len(definition) = 4 THEN "GLOBAL"
    ELSE IF definition[2] = "BU_" THEN "NODE"
    ELSE IF definition[2] = "BO_" THEN "MESSAGE"
    ELSE IF definition[2] = "SG_" THEN "SIGNAL"
    ELSE IF definition[2] = "EV_" THEN "ENVIRONMENT_VARIABLE"
    ELSE IF definition[2] = "BU_BO_REL_" THEN "NODE_MESSAGE"
    ELSE IF definition[2] = "BU_SG_REL_" THEN "NODE_SIGNAL"
    ELSE "NODE_ENVIRONMENT_VARIABLE"

(* What a value token denotes under a schema of the given kind *)
Denoted(tok, kind) ==
    IF kind \in {"INTEGER", "HEX"} THEN IntV(ValueOf(tok).m)
    ELSE IF kind = "FLOAT" THEN FloatV(ValueOf(tok))
    ELSE StrV(TextOf(tok))

(* The BA_DEF_DEF_ statements that name schema name *)
DefaultStatements(name) ==
    {n \in 1..Len(ast.attribute_defaults) : ast.attribute_defaults[n][2].name = name}

(* The entity a BA_ statement assigns to *)
Target(scope, id, name) == [scope |-> scope, id |-> id, name |-> name]
TargetOf(av) ==
    IF av[1] # "BA_" THEN Target("none", 0, "")
    ELSE IF Len(av) = 4 THEN Target("file", 0, "")
    ELSE IF Len(av) = 6 /\ av[3] = "BO_" THEN Target("BO_", IntOf(av[4]), "")
    ELSE IF Len(av) = 6 THEN Target(av[3], 0, av[4])
    ELSE Target("SG_", IntOf(av[4]), av[5])

ValueToken(av) == av[Len(av) - 1]

(* The attributes dict of the entity in d *)
AttributesOf(d, target) ==
    IF target.scope = "file" THEN d.attribute_values
    ELSE IF target.scope = "BU_" THEN get_node(d, target.name).v.attributes
    ELSE IF target.scope = "BO_" THEN get_message(d, target.id).v.attributes
    ELSE IF target.scope = "EV_"
    THEN get_environment_variable(d, target.name).v.attributes
    ELSE get_signal(get_message(d, target.id).v, target.name).v.attributes

(* The entities of the tree *)
DeclaredTargets ==
    {Target("file", 0, "")}
    \cup {Target("BU_", 0, NodeKeys[i]) : i \in 1..Len(NodeKeys)}
    \cup {Target("BO_", MessageKeys[i], "") : i \in 1..Len(MessageKeys)}
    \cup {Target("EV_", 0, EnvVarKeys[i]) : i \in 1..Len(EnvVarKeys)}
    \cup {Target("SG_", MessageKeys[ij[1]], ParsedSignal(ij).signal_name) :
              ij \in DeclaredSignals}

(* The attribute names the first n BA_ statements assign to target *)
RECURSIVE AssignedNames(_, _)
AssignedNames(target, n) ==
    IF n = 0 THEN <<>>
    ELSE AssignedNames(target, n - 1) \o
         (IF TargetOf(ast.attribute_values[n]) = target
          THEN <<ast.attribute_values[n][2].name>> ELSE <<>>)

(* The schema a stored value refers to *)
SchemaOf(d, value) == get_attribute_definition(d, value.attribute).v

(* C14: in a returned DbcFile, for every BA_ statement assigning v to    *)
(* attribute A of the file, a node, a message, a signal or an            *)
(* environment variable, the entity holds under A a value equal to v     *)
(* whose schema is the one BA_DEF_ declared for A: its value_type is the *)
(* declared type, its object_type follows the scope token of the BA_DEF_ *)
(* (none: GLOBAL) and its default is the d of BA_DEF_DEF_ "A" d; and     *)
(* every entity holds exactly the attributes BA_ statements assign it.   *)
C14_AttributeBinding ==
    pc = "done" =>
        /\ \A n \in 1..Len(ast.attribute_values) :
              LET av == ast.attribute_values[n]
                  A == av[2].name
                  definition == DefinitionOf(A)
                  stored == DictLookup(AttributesOf(Returned, TargetOf(av)), A)
                  schema == SchemaOf(Returned, stored.v)
              IN  av[1] = "BA_" =>
                    /\ stored.ok
                    /\ stored.v.name = A
                    /\ stored.v.value = Denoted(ValueToken(av), DeclaredKind(definition))
                    /\ schema.name = A
                    /\ schema.value_type.kind = DeclaredKind(definition)
                    /\ schema.object_type = DeclaredObjectType(definition)
                    /\ DefaultStatements(A) # {} =>
                          /\ schema.default # None
                          /\ schema.default[1].value =
                                Denoted(ast.attribute_defaults[
                                            Max(DefaultStatements(A))][3],
                                        DeclaredKind(definition))
        /\ \A target \in DeclaredTargets :
              DictKeys(AttributesOf(Returned, target)) =
                  AssignedNames(target, Len(ast.attribute_values))

C14_Witness ==
    /\ pc = "done"
    /\ ast.attribute_defaults = BaseDefaults
    /\ Len(ast.attribute_values) = 2
    /\ TargetOf(ast.attribute_values[1]) = Target("BO_", 123, "")
    /\ TargetOf(ast.attribute_values[2]) = Target("SG_", 123, "SIGNAL11")
    /\ LET msg == get_message(Returned, 123).v
           sig == get_signal(msg, "SIGNAL11").v
       IN  /\ get_attribute(msg, "MATTR").v.value = IntV(26)
           /\ SchemaOf(Returned, get_attribute(msg, "MATTR").v).object_type = "MESSAGE"
           /\ SchemaOf(Returned, get_attribute(msg, "MATTR").v).default[1].value = IntV(9)
           /\ get_attribute(sig, "SATTR").v.value = FloatV([m |-> 5, e |-> 1])
           /\ SchemaOf(Returned, get_attribute(sig, "SATTR").v).value_type.kind = "FLOAT"
           /\ ~has_attribute(get_signal(msg, "SIGNAL12").v, "SATTR")

(* The schemas have distinct names and every default names a schema *)
SchemasDeclaredOnce ==
    /\ NoDup(DefinitionKeys)
    /\ \A n \in 1..Len(ast.attribute_defaults) :
          SchemaDeclared(ast.attribute_defaults[n][2])

(* A BA_REL_ ... BU_SG_REL_ statement whose schema, node, message and    *)
(* signal are all declared                                               *)
IsDeclaredNodeSignalValue(av) ==
    /\ av[1] = "BA_REL_"
    /\ Len(av) = 9
    /\ av[3] = "BU_SG_REL_"
    /\ av[5] = "SG_"
    /\ SchemaDeclared(av[2])
    /\ NodeDeclared(av[4])
    /\ SignalDeclared(av[6], av[7])

SameNodeSignal(av, bv) ==
    /\ av[2].name = bv[2].name
    /\ av[4] = bv[4]
    /\ IntOf(av[6]) = IntOf(bv[6])
    /\ av[7] = bv[7]

(* The signal of d holds the value of av under its attribute and node *)
NodeSignalValueStored(d, av) ==
    LET sig == get_signal(get_message(d, IntOf(av[6])).v, av[7]).v
        A == av[2].name
    IN  /\ "node_attributes" \in DOMAIN sig
        /\ DictHas(sig.node_attributes, A)
        /\ DictHas(DictGet(sig.node_attributes, A), av[4])
        /\ DictGet(DictGet(sig.node_attributes, A), av[4]).value =
              Denoted(av[8], DeclaredKind(DefinitionOf(A)))

(* C15: the attribute pass does not fail on BA_REL_ ... BU_SG_REL_       *)
(* statements whose schema, node, message and signal are declared, and   *)
(* in a returned DbcFile the signal maps, under the attribute name, the  *)
(* node name of each such statement to its value, whatever statements    *)
(* precede it.                                                           *)
C15_NodeSignalAttributesStored ==
    [][/\ (/\ pc = "attributes"
           /\ SchemasDeclaredOnce
           /\ ast.attribute_values # <<>>
           /\ \A n \in 1..Len(ast.attribute_values) :
                 IsDeclaredNodeSignalValue(ast.attribute_values[n])
           /\ \A n, k \in 1..Len(ast.attribute_values) :
                 n # k => ~SameNodeSignal(ast.attribute_values[n],
                                          ast.attribute_values[k]))
          => pc' = "value_descriptions"
       /\ pc' = "done" =>
             \A n \in 1..Len(ast.attribute_values) :
                 (/\ IsDeclaredNodeSignalValue(ast.attribute_values[n])
                  /\ \A k \in 1..Len(ast.attribute_values) :
                        (k # n /\ IsDeclaredNodeSignalValue(ast.attribute_values[k]))
                            => ~SameNodeSignal(ast.attribute_values[n],
                                               ast.attribute_values[k]))
                     => NodeSignalValueStored(dbc', ast.attribute_values[n])]_vars

(* A BA_ statement whose schema and entity are declared *)
IsDeclaredValue(av) == av[1] = "BA_" /\ AttributeValueBound(av)

(* The last BA_ statement that assigns the attribute of statement n to   *)
(* the entity of statement n                                             *)
LastAssignment(n) ==
    Max({k \in 1..Len(ast.attribute_values) :
            /\ TargetOf(ast.attribute_values[k]) = TargetOf(ast.attribute_values[n])
            /\ ast.attribute_values[k][2].name = ast.attribute_values[n][2].name})

(* C16: the attribute pass does not fail on BA_ statements with declared *)
(* schemas and entities, also when two of them assign the same attribute *)
(* of the same entity, and the entity then holds the value of the last   *)
(* such statement.                                                       *)
C16_RepeatedAssignmentLastWins ==
    [][(/\ pc = "attributes"
        /\ SchemasDeclaredOnce
        /\ \A n \in 1..Len(ast.attribute_values) :
              IsDeclaredValue(ast.attribute_values[n]))
       => /\ pc' = "value_descriptions"
          /\ \A n \in 1..Len(ast.attribute_values) :
                LET av == ast.attribute_values[n]
                    stored == DictLookup(AttributesOf(dbc', TargetOf(av)), av[2].name)
                IN  /\ stored.ok
                    /\ stored.v.value =
                          Denoted(ValueToken(ast.attribute_values[LastAssignment(n)]),
                                  DeclaredKind(DefinitionOf(av[2].name)))]_vars

(* The access nodes an EV_ statement lists, Vector__XXX left out *)
RECURSIVE WithoutPlaceholder(_)
WithoutPlaceholder(names) ==
    IF names = <<>> THEN <<>>
    ELSE (IF Head(names) = "Vector__XXX" THEN <<>> ELSE <<Head(names)>>)
         \o WithoutPlaceholder(Tail(names))

ListedAccessNodes(parsed) == WithoutPlaceholder(<<parsed[14]>> \o parsed[15])

AccessTypeOfToken(tok) ==
    IF tok = "DUMMY_NODE_VECTOR1" THEN "READ"
    ELSE IF tok = "DUMMY_NODE_VECTOR2" THEN "WRITE"
    ELSE IF tok = "DUMMY_NODE_VECTOR3" THEN "READ_WRITE"
    ELSE "UNRESTRICTED"

OptionalNumber(tok) == IF tok = None THEN None ELSE Some(FloatOf(tok[1]))

(* C17: from the environment-variable pass on, the environment variable  *)
(* of EV_ E: t [lo|hi] "u" init id <access> N1,...,Nk has name E,        *)
(* minimum lo, maximum hi, unit u, init_value init, id id, the access    *)
(* type of <access> and, as access_nodes, the declared nodes N1..Nk in   *)
(* list order without the Vector__XXX entries; its type is the one of t  *)
(* until an ENVVAR_DATA_ statement names it.                             *)
C17_EnvVarFields ==
    pc \notin {"version", "nodes", "value_tables", "messages",
               "environment_variables", "raised"} =>
        \A i \in DeclaredEnvVars :
            LET parsed == ParsedEnvVar(i)
                ev == BoundEnvVar(dbc, i)
                listed == ListedAccessNodes(parsed)
            IN  /\ ev.name = parsed[2]
                /\ (DataStatements(i) = {} \/ pc = "environment_variables_data")
                      => ev.type = EnvVarTypeOfCode(parsed[4])
                /\ ev.minimum = OptionalNumber(parsed[6])
                /\ ev.maximum = OptionalNumber(parsed[8])
                /\ ev.unit = TextOf(parsed[10])
                /\ ev.init_value = OptionalNumber(parsed[11])
                /\ ev.id = IntOf(parsed[12])
                /\ parsed[13] \in {"DUMMY_NODE_VECTOR0", "DUMMY_NODE_VECTOR1",
                                    "DUMMY_NODE_VECTOR2", "DUMMY_NODE_VECTOR3",
                                    "DUMMY_NODE_VECTOR8000"}
                /\ ev.access_type = AccessTypeOfToken(parsed[13])
                /\ Len(ev.access_nodes) = Len(listed)
                /\ \A k \in 1..Len(listed) :
                      /\ NodeDeclared(listed[k])
                      /\ ev.access_nodes[k] = NodeRef(listed[k])
                      /\ get_node(dbc, listed[k]).v.name = listed[k]

C17_Witness ==
    /\ pc = "done"
    /\ \E i, j \in DeclaredEnvVars :
          /\ ParsedEnvVar(i)[14] = "Vector__XXX"
          /\ ParsedEnvVar(i)[15] = <<"NODE1", "NODE2">>
          /\ BoundEnvVar(Returned, i).access_nodes = <<NodeRef("NODE1"), NodeRef("NODE2")>>
          /\ BoundEnvVar(Returned, i).type = "STRING"
          /\ BoundEnvVar(Returned, i).access_type = "UNRESTRICTED"
          /\ BoundEnvVar(Returned, i).id = 18
          /\ ParsedEnvVar(j)[15] = <<"Vector__XXX", "NODE1">>
          /\ BoundEnvVar(Returned, j).access_nodes = <<NodeRef("NODE2"), NodeRef("NODE1")>>
          /\ BoundEnvVar(Returned, j).minimum = None
          /\ BoundEnvVar(Returned, j).init_value = Some([m |-> 5, e |-> 1])
          /\ BoundEnvVar(Returned, j).unit = <<"m", "s">>

(* C18: the environment-variable pass does not fail on EV_ statements    *)
(* with distinct names, known type codes and known access tokens,        *)
(* whether or not the nodes of                                           *)
(* their access lists are declared: each variable is created and its     *)
(* access_nodes holds, for every listed name but Vector__XXX, a node of  *)
(* that name at that position.                                           *)
C18_UndeclaredAccessNodeTolerated ==
    [][(/\ pc = "environment_variables"
        /\ NoDup(EnvVarKeys)
        /\ \A i \in DeclaredEnvVars :
              /\ ParsedEnvVar(i)[4] \in {"0", "1", "2"}
              /\ ParsedEnvVar(i)[13] \in {"DUMMY_NODE_VECTOR0", "DUMMY_NODE_VECTOR1",
                                          "DUMMY_NODE_VECTOR2", "DUMMY_NODE_VECTOR3",
                                          "DUMMY_NODE_VECTOR8000"})
       => /\ pc' = "environment_variables_data"
          /\ \A i \in DeclaredEnvVars :
                LET ev == BoundEnvVar(dbc', i)
                    listed == ListedAccessNodes(ParsedEnvVar(i))
                IN  /\ Len(ev.access_nodes) = Len(listed)
                    /\ \A k \in 1..Len(listed) :
                          /\ attr_name(ev.access_nodes[k]).ok
                          /\ attr_name(ev.access_nodes[k]).v = listed[k]]_vars

(* The messages of the tree *)
DeclaredMessages == 1..Len(ast.messages)

(* The signal group a SIG_GROUP_ statement declares *)
DeclaredGroup(sg) ==
    [name |-> sg[3], repetitions |-> IntOf(sg[4]),
     signals |-> [k \in 1..Len(sg[6]) |-> SignalRef(IntOf(sg[2]), sg[6][k])]]

(* The groups the first n SIG_GROUP_ statements declare for message i *)
RECURSIVE DeclaredGroups(_, _)
DeclaredGroups(i, n) ==
    IF n = 0 THEN <<>>
    ELSE DeclaredGroups(i, n - 1) \o
         (IF IntOf(ast.signal_groups[n][2]) = MessageKeys[i]
          THEN <<DeclaredGroup(ast.signal_groups[n])>> ELSE <<>>)

(* C19: in a returned DbcFile the signal_groups of every message are the *)
(* groups of the SIG_GROUP_ statements naming its id, in source order,   *)
(* each listing the signals its statement names, in that order, every    *)
(* one of them a signal of that same message.                            *)
C19_SignalGroupsWithinMessage ==
    pc = "done" =>
        \A i \in DeclaredMessages :
            LET msg == get_message(Returned, MessageKeys[i]).v
            IN  /\ msg.signal_groups = DeclaredGroups(i, Len(ast.signal_groups))
                /\ \A g \in 1..Len(msg.signal_groups) :
                      \A k \in 1..Len(msg.signal_groups[g].signals) :
                          LET sig == msg.signal_groups[g].signals[k]
                          IN  /\ sig.of = msg.id
                              /\ InSeq(SignalKeys(i), sig.v)
                              /\ get_signal(msg, sig.v).ok

C19_Witness ==
    /\ pc = "done"
    /\ Len(ast.signal_groups) = 2
    /\ ast.signal_groups[1][6] = <<"SIGNAL13", "SIGNAL12">>
    /\ ast.signal_groups[2][6] = <<"SIGNAL11", "SIGNAL12">>
    /\ Len(get_message(Returned, 99).v.signal_groups) = 1
    /\ get_message(Returned, 99).v.signal_groups[1].signals =
          <<SignalRef(99, "SIGNAL13"), SignalRef(99, "SIGNAL12")>>
    /\ get_message(Returned, 123).v.signal_groups[1].signals =
          <<SignalRef(123, "SIGNAL11"), SignalRef(123, "SIGNAL12")>>
    /\ ~get_signal(get_message(Returned, 123).v, "SIGNAL13").ok

RuntimeTypeOf(kind) ==
    IF kind \in {"INTEGER", "HEX"} THEN "int"
    ELSE IF kind = "FLOAT" THEN "float" ELSE "str"

Quoted(cs) == Len(cs) >= 2 /\ cs[1] = QUOTE /\ cs[Len(cs)] = QUOTE

(* value names a schema of d, carries its name and has its runtime type *)
MatchesSchema(d, value) ==
    /\ has_attribute_definition(d, value.attribute)
    /\ value.name = SchemaOf(d, value).name
    /\ value.value.ty = RuntimeTypeOf(SchemaOf(d, value).value_type.kind)
    /\ value.value.ty = "str" => ~Quoted(value.value.v)

AllMatchSchema(d, attributes) ==
    \A k \in 1..Len(attributes) : MatchesSchema(d, attributes[k].v)

(* C20: from the attribute pass on, every attribute value held by the    *)
(* file, a node, a message, a signal or an environment variable, and     *)
(* every schema default, names a schema of the file, carries that        *)
(* schema's name, and has the runtime type of the schema's value type:   *)
(* int for INTEGER and HEX, float for FLOAT, a string without its quotes *)
(* for STRING and ENUM.                                                  *)
C20_ValueTypeMatchesSchema ==
    pc \in {"value_descriptions", "signal_type_refs", "signal_groups", "return",
            "done"} =>
        /\ AllMatchSchema(dbc, dbc.attribute_values)
        /\ \A i \in 1..Len(dbc.nodes_by_name) :
              AllMatchSchema(dbc, dbc.nodes_by_name[i].v.attributes)
        /\ \A i \in 1..Len(dbc.environment_variables_by_name) :
              AllMatchSchema(dbc, dbc.environment_variables_by_name[i].v.attributes)
        /\ \A i \in 1..Len(dbc.messages_by_id) :
              /\ AllMatchSchema(dbc, dbc.messages_by_id[i].v.attributes)
              /\ \A j \in 1..Len(dbc.messages_by_id[i].v.signals_by_name) :
                    AllMatchSchema(dbc,
                        dbc.messages_by_id[i].v.signals_by_name[j].v.attributes)
        /\ \A i \in 1..Len(dbc.attribute_definitions) :
              dbc.attribute_definitions[i].v.default # None =>
                  MatchesSchema(dbc, dbc.attribute_definitions[i].v.default[1])

C20_Witness ==
    /\ pc = "done"
    /\ Len(ast.attribute_values) = 2
    /\ LET msg == get_message(Returned, 123).v
           sig == get_signal(msg, "SIGNAL11").v
       IN  /\ has_attribute(msg, "MATTR")
           /\ get_attribute(msg, "MATTR").v.value.ty = "int"
           /\ SchemaOf(Returned, get_attribute(msg, "MATTR").v).value_type.kind = "HEX"
           /\ has_attribute(sig, "SATTR")
           /\ get_attribute(sig, "SATTR").v.value.ty = "float"
    /\ get_attribute_definition(Returned, "EATTR").v.default # None
    /\ get_attribute_definition(Returned, "EATTR").v.default[1].value = StrV(<<"Y">>)
    /\ get_attribute_definition(Returned, "EATTR").v.value_type.kind = "ENUM"
    /\ get_attribute_definition(Returned, "GATTR").v.default[1].value.ty = "str"

-----------------------------------------------------------------------------
(* The order of the binder passes *)

DocumentedOrder ==
    <<"version", "nodes", "value_tables", "messages", "environment_variables",
      "environment_variables_data", "comments", "attributes",
      "value_descriptions", "signal_type_refs", "signal_groups">>

PositionOf(p) == CHOOSE i \in 1..Len(DocumentedOrder) : DocumentedOrder[i] = p

IsPass(p) == \E i \in 1..Len(DocumentedOrder) : DocumentedOrder[i] = p

(* create_dbc stands before pass p *)
Before(p) == IsPass(pc) /\ PositionOf(pc) <= PositionOf(p)

(* pass p has returned *)
Finished(p) ==
    \/ pc \in {"return", "done"}
    \/ IsPass(pc) /\ PositionOf(pc) > PositionOf(p)

(* What the passes have bound so far, family by family *)
BoundKeys(d) ==
    [nodes |-> DictKeys(d.nodes_by_name),
     value_tables |-> DictKeys(d.value_tables_by_name),
     messages |-> DictKeys(d.messages_by_id),
     environment_variables |-> DictKeys(d.environment_variables_by_name),
     attributes |-> DictKeys(d.attribute_definitions)]

DeclaredKeys ==
    [nodes |-> NodeKeys,
     value_tables |-> ValueTableKeys,
     messages |-> MessageKeys,
     environment_variables |-> EnvVarKeys,
     attributes |-> DefinitionKeys]

Families == {"nodes", "value_tables", "messages", "environment_variables", "attributes"}

(* The attributes dict of the entity in d, empty while it is not bound *)
StoredAttributes(d, target) ==
    IF target.scope = "file" THEN d.attribute_values
    ELSE IF target.scope = "BU_"
    THEN (IF has_node(d, target.name) THEN AttributesOf(d, target) ELSE <<>>)
    ELSE IF target.scope = "EV_"
    THEN (IF DictHas(d.environment_variables_by_name, target.name)
          THEN AttributesOf(d, target) ELSE <<>>)
    ELSE IF ~has_message(d, target.id) THEN <<>>
    ELSE IF target.scope = "BO_" THEN AttributesOf(d, target)
    ELSE IF DictHas(get_message(d, target.id).v.signals_by_name, target.name)
    THEN AttributesOf(d, target)
    ELSE <<>>

NoAttributeStored(d) ==
    \A target \in DeclaredTargets : StoredAttributes(d, target) = <<>>

(* The value type of the kind reads the token: a quoted text for STRING *)
(* and ENUM, a number for FLOAT, a number without a point for INTEGER    *)
(* and HEX                                                               *)
TokenFits(tok, kind) ==
    /\ kind \in {"STRING", "ENUM"} <=> tok[1] = QUOTE
    /\ kind \in {"INTEGER", "HEX"} => \A k \in 1..Len(tok) : tok[k] # "."

(* Every BA_DEF_DEF_ names a declared schema and carries a token its     *)
(* value type reads                                                      *)
DefaultsWellFormed ==
    \A n \in 1..Len(ast.attribute_defaults) :
        LET name == ast.attribute_defaults[n][2].name
        IN  /\ InSeq(DefinitionKeys, name)
            /\ TokenFits(ast.attribute_defaults[n][3],
                         DeclaredKind(DefinitionOf(name)))

(* One step of create_dbc follows the documented order *)
InDocumentedOrder ==
    /\ IsPass(pc) =>
          \/ pc' = "raised"
          \/ PositionOf(pc) < Len(DocumentedOrder)
                /\ pc' = DocumentedOrder[PositionOf(pc) + 1]
          \/ PositionOf(pc) = Len(DocumentedOrder) /\ pc' = "return"
    /\ pc = "return" => pc' = "done"
    /\ \A family \in Families :
          pc # family => BoundKeys(dbc')[family] = BoundKeys(dbc)[family]
    /\ pc # "attributes" =>
          \A target \in DeclaredTargets :
              StoredAttributes(dbc', target) = StoredAttributes(dbc, target)

(* The attribute pass reads definitions, then defaults, then values *)
AttributeSubPassesInOrder ==
    (pc = "attributes" /\ NoDup(DefinitionKeys)) =>
        /\ BoundKeys(dbc').attributes = DefinitionKeys
        /\ ~DefaultsWellFormed =>
              /\ pc' = "raised"
              /\ NoAttributeStored(dbc')
        /\ DefaultsWellFormed =>
              \A i \in 1..Len(DefinitionKeys) :
                  DefaultStatements(DefinitionKeys[i]) # {} <=>
                      get_attribute_definition(dbc', DefinitionKeys[i]).v.default # None

(* C21: create_dbc runs the passes once each in the order version,       *)
(* nodes, value tables, messages, environment variables, environment     *)
(* variable data, comments, attributes, value descriptions, signal type  *)
(* refs, signal groups, and then returns; a family of entities is bound  *)
(* by its own pass only, so that before a pass nothing of its family is  *)
(* bound and after it everything the tree declares is; the attribute     *)
(* pass binds the definitions, then the defaults, then the values.       *)
C21_PassesInDocumentedOrder ==
    /\ [](\A family \in Families :
            /\ Before(family) => BoundKeys(dbc)[family] = <<>>
            /\ Finished(family) => BoundKeys(dbc)[family] = DeclaredKeys[family])
    /\ [][InDocumentedOrder /\ AttributeSubPassesInOrder]_vars

C21_Witness ==
    /\ pc = "done"
    /\ ast.attribute_defaults = BaseDefaults
    /\ Len(ast.attribute_values) = 2
    /\ has_attribute(get_node(Returned, "NODE1").v, "NATTR")
    /\ has_attribute(get_message(Returned, 123).v, "MATTR")
    /\ get_attribute_definition(Returned, "MATTR").v.default # None

-----------------------------------------------------------------------------
(* Relation attribute values between a node and a message or an          *)
(* environment variable                                                  *)

(* BA_REL_ "A" BU_BO_REL_ <node> BO_ <id> <v> or                         *)
(* BA_REL_ "A" BU_EV_REL_ <node> EV_ <ev> <v> with schema, node and      *)
(* message or environment variable declared                              *)
IsDeclaredIgnoredRelation(av) ==
    /\ av[1] = "BA_REL_"
    /\ Len(av) = 8
    /\ SchemaDeclared(av[2])
    /\ NodeDeclared(av[4])
    /\ \/ av[3] = "BU_BO_REL_" /\ av[5] = "BO_" /\ MessageDeclared(av[6])
       \/ av[3] = "BU_EV_REL_" /\ av[5] = "EV_" /\ EnvVarDeclared(av[6])
    /\ TokenFits(av[7], DeclaredKind(DefinitionOf(av[2].name)))

(* A BA_ statement the attribute pass stores: schema and entity are      *)
(* declared, the token fits, and no other BA_ statement assigns the same *)
(* attribute of the same entity                                          *)
IsStoredValue(n) ==
    LET av == ast.attribute_values[n]
    IN  /\ IsDeclaredValue(av)
        /\ Len(av) = 6 => av[3] \in {"BU_", "BO_", "EV_"}
        /\ Len(av) = 7 => av[3] = "SG_"
        /\ TokenFits(ValueToken(av), DeclaredKind(DefinitionOf(av[2].name)))
        /\ LastAssignment(n) = n
        /\ \A k \in 1..(n - 1) :
              ~(/\ TargetOf(ast.attribute_values[k]) = TargetOf(av)
                /\ ast.attribute_values[k][2].name = av[2].name)

IgnoredRelations ==
    {n \in 1..Len(ast.attribute_values) :
        IsDeclaredIgnoredRelation(ast.attribute_values[n])}

(* C22: the attribute pass does not fail on BA_REL_ statements of shape  *)
(* BU_BO_REL_ <node> BO_ <id> <v> or BU_EV_REL_ <node> EV_ <ev> <v>      *)
(* whose schema, node and message or environment variable are declared,  *)
(* alone or among BA_ statements it stores, and they leave the attribute *)
(* maps of the file and of every node, message, signal and environment   *)
(* variable as they are: after the pass each map holds the attributes of *)
(* the BA_ statements only, and nothing new when there are none.         *)
C22_NodeRelationsIgnored ==
    [][(/\ pc = "attributes"
        /\ SchemasDeclaredOnce
        /\ DefaultsWellFormed
        /\ IgnoredRelations # {}
        /\ \A n \in 1..Len(ast.attribute_values) :
              n \in IgnoredRelations \/ IsStoredValue(n))
       => /\ pc' = "value_descriptions"
          /\ \A target \in DeclaredTargets :
                /\ DictKeys(StoredAttributes(dbc', target)) =
                      AssignedNames(target, Len(ast.attribute_values))
                /\ (\A n \in 1..Len(ast.attribute_values) : n \in IgnoredRelations)
                      => StoredAttributes(dbc', target) = StoredAttributes(dbc, target)
          /\ BoundKeys(dbc') = [BoundKeys(dbc) EXCEPT !.attributes = DefinitionKeys]]_vars

(* A file is returned whose tree holds an ignored relation of each shape *)
C22_Witness ==
    /\ pc = "done"
    /\ Len(ast.attribute_values) = 2
    /\ ast.attribute_values[1][3] = "BU_BO_REL_"
    /\ ast.attribute_values[2][3] = "BU_EV_REL_"
    /\ IgnoredRelations = {1, 2}
    /\ NoAttributeStored(Returned)

-----------------------------------------------------------------------------
(* The closed token sets of the decoders *)

AccessTokens ==
    {"DUMMY_NODE_VECTOR0", "DUMMY_NODE_VECTOR1", "DUMMY_NODE_VECTOR2",
     "DUMMY_NODE_VECTOR3", "DUMMY_NODE_VECTOR8000"}

DocumentedAccessType(tok) ==
    IF tok = "DUMMY_NODE_VECTOR0" THEN "UNRESTRICTED"
    ELSE IF tok = "DUMMY_NODE_VECTOR1" THEN "READ"
    ELSE IF tok = "DUMMY_NODE_VECTOR2" THEN "WRITE"
    ELSE IF tok = "DUMMY_NODE_VECTOR3" THEN "READ_WRITE"
    ELSE IF tok = "DUMMY_NODE_VECTOR8000" THEN "UNRESTRICTED"
    ELSE "none"

(* C23: once the environment-variable pass has returned, every EV_       *)
(* statement carries one of the access tokens DUMMY_NODE_VECTOR0, 1, 2,  *)
(* 3, 8000 and its variable has access type UNRESTRICTED, READ, WRITE,   *)
(* READ_WRITE, UNRESTRICTED respectively, and a type code among 0, 1, 2; *)
(* once the message pass has returned every signal carries a byte order  *)
(* among 0, 1 and a sign among +, -; once the signal-type pass has       *)
(* returned every SIG_VALTYPE_ carries a code among 0, 1, 2. A tree with *)
(* any other token never gets past the pass that decodes it.             *)
C23_DecodersRejectUnknownTokens ==
    /\ Finished("environment_variables") =>
          \A i \in DeclaredEnvVars :
              /\ ParsedEnvVar(i)[13] \in AccessTokens
              /\ BoundEnvVar(dbc, i).access_type =
                    DocumentedAccessType(ParsedEnvVar(i)[13])
              /\ ParsedEnvVar(i)[4] \in {"0", "1", "2"}
    /\ Finished("messages") =>
          \A ij \in DeclaredSignals :
              /\ ParsedSignal(ij).byte_order \in {"0", "1"}
              /\ ParsedSignal(ij).value_type \in {"+", "-"}
    /\ Finished("signal_type_refs") =>
          \A n \in 1..Len(ast.signal_type_refs) :
              ast.signal_type_refs[n][5] \in {"0", "1", "2"}

(* The parse has failed on DUMMY_NODE_VECTOR4, after a variable with     *)
(* DUMMY_NODE_VECTOR8000 was bound as UNRESTRICTED                       *)
C23_Witness ==
    /\ pc = "raised"
    /\ err = "RuntimeError"
    /\ Len(ast.environment_variables) = 2
    /\ ParsedEnvVar(1)[13] = "DUMMY_NODE_VECTOR8000"
    /\ ParsedEnvVar(2)[13] = "DUMMY_NODE_VECTOR4"
    /\ BoundKeys(dbc).environment_variables = <<ParsedEnvVar(1)[2]>>
    /\ BoundEnvVar(dbc, 1).access_type = "UNRESTRICTED"
    /\ ret = None

-----------------------------------------------------------------------------
(* The bounds of a numeric schema *)

(* The bound a BA_DEF_ token denotes under a schema of the given kind *)
DeclaredBound(tok, kind) ==
    IF kind = "FLOAT" THEN ValueOf(tok) ELSE ValueOf(tok).m

NumericSchemas ==
    {i \in 1..Len(DefinitionKeys) :
        DeclaredKind(ast.attribute_definitions[i]) \in {"INTEGER", "HEX", "FLOAT"}}

(* C24: the attribute pass accepts every BA_ value and BA_DEF_DEF_       *)
(* default whose token its schema's value type reads, whether or not it  *)
(* lies within the schema's minimum and maximum: an INT, HEX or FLOAT    *)
(* schema records the minimum and maximum of its BA_DEF_, the entity     *)
(* holds exactly the value written in the BA_ statement and the schema   *)
(* exactly the default written in its last BA_DEF_DEF_.                  *)
C24_BoundsRecordedNotEnforced ==
    [][(/\ pc = "attributes"
        /\ SchemasDeclaredOnce
        /\ DefaultsWellFormed
        /\ \A n \in 1..Len(ast.attribute_values) : IsStoredValue(n))
       => /\ pc' = "value_descriptions"
          /\ \A i \in NumericSchemas :
                LET definition == ast.attribute_definitions[i]
                    type == definition[Len(definition) - 1]
                    schema == get_attribute_definition(dbc', DefinitionKeys[i]).v
                IN  /\ schema.value_type.min = DeclaredBound(type[2], DeclaredKind(definition))
                    /\ schema.value_type.max = DeclaredBound(type[3], DeclaredKind(definition))
          /\ \A n \in 1..Len(ast.attribute_values) :
                LET av == ast.attribute_values[n]
                    stored == DictLookup(StoredAttributes(dbc', TargetOf(av)), av[2].name)
                IN  /\ stored.ok
                    /\ stored.v.value =
                          Denoted(ValueToken(av), DeclaredKind(DefinitionOf(av[2].name)))
          /\ \A n \in 1..Len(ast.attribute_defaults) :
                LET name == ast.attribute_defaults[n][2].name
                    schema == get_attribute_definition(dbc', name).v
                IN  /\ schema.default # None
                    /\ schema.default[1].value =
                          Denoted(ast.attribute_defaults[Max(DefaultStatements(name))][3],
                                  DeclaredKind(DefinitionOf(name)))]_vars

(* A file is returned in which a node holds 5 under a schema INT 0 0 and *)
(* a message 26 under a schema HEX 0 9                                   *)
C24_Witness ==
    /\ pc = "done"
    /\ Len(ast.attribute_values) = 2
    /\ has_attribute(get_node(Returned, "NODE1").v, "NATTR")
    /\ has_attribute(get_message(Returned, 123).v, "MATTR")
    /\ LET onNode == get_attribute(get_node(Returned, "NODE1").v, "NATTR").v
           onMessage == get_attribute(get_message(Returned, 123).v, "MATTR").v
       IN  /\ onNode.value = IntV(5)
           /\ SchemaOf(Returned, onNode).value_type.max = 0
           /\ SchemaOf(Returned, onNode).value_type.kind = "INTEGER"
           /\ onMessage.value = IntV(26)
           /\ SchemaOf(Returned, onMessage).value_type.max = 9
           /\ SchemaOf(Returned, onMessage).value_type.kind = "HEX"

(* A file is returned whose schema INT 0 0 holds the default 5 *)
C24_WitnessDefault ==
    /\ pc = "done"
    /\ has_attribute_definition(Returned, "NATTR")
    /\ get_attribute_definition(Returned, "NATTR").v.default # None
    /\ get_attribute_definition(Returned, "NATTR").v.default[1].value = IntV(5)
    /\ get_attribute_definition(Returned, "NATTR").v.value_type.max = 0

-----------------------------------------------------------------------------
(* The category of the entity an attribute value is attached to *)

CategoryOf(scope) ==
    IF scope = "file" THEN "GLOBAL"
    ELSE IF scope = "BU_" THEN "NODE"
    ELSE IF scope = "BO_" THEN "MESSAGE"
    ELSE IF scope = "SG_" THEN "SIGNAL"
    ELSE "ENVIRONMENT_VARIABLE"

(* C25: in a returned DbcFile every attribute value of the file          *)
(* references a schema of object type GLOBAL, every value of a node a    *)
(* NODE schema, of a message a MESSAGE schema, of a signal a SIGNAL      *)
(* schema and of an environment variable an ENVIRONMENT_VARIABLE schema. *)
C25_ValueAttachedToSchemaCategory ==
    pc = "done" =>
        \A target \in DeclaredTargets :
            \A k \in 1..Len(StoredAttributes(Returned, target)) :
                SchemaOf(Returned, StoredAttributes(Returned, target)[k].v).object_type
                    = CategoryOf(target.scope)

====
